---------------------------- MODULE Spec2Model ----------------------------
(***************************************************************************)
(* A model of the two memory-management facilities of the repository:      *)
(*                                                                         *)
(*   TC  the tracing collector of collections/cpp/gc.h and gc.cpp          *)
(*       (gc_object, gc_base_ptr, New<T>, gc_collect);                     *)
(*   RC  the atomic reference-counted handle of                            *)
(*       collections/cpp/VSharedPtr.hpp (ControlBlock, VSharedPtr,         *)
(*       LockedProxy) in ThreadMode::True.                                 *)
(*                                                                         *)
(* Objects, handles and control blocks are identified by small integers;   *)
(* 0 is the null pointer.  The payload type of every TC object is a record *)
(* with EmbPerObj Ptr<> members (the Node of test/cpp_test.cpp has one).   *)
(***************************************************************************)
EXTENDS Integers, Sequences, FiniteSets, TLC

(***************************************************************************)
(* Bounds of the model.                                                    *)
(***************************************************************************)
MaxObjs == 3
NumRoots == 2
EmbPerObj == 1
NumThreads == 2
NumRCThreads == 3
MaxNest == 1
MaxObjsConc == 2
MaxCBs == 2
NumRC == 4
CountBits == 3
MaxDeletes == 2
MaxUnits == 2
MaxCountdown == 2
MaxArrayLen == 3
NumGHandles == 3
MaxHeaders == 3
NumRtPtrs == 2

(***************************************************************************)
(* Program constants.                                                      *)
(***************************************************************************)
GcCounterInit == 1024
GcCounterFloor == 1024
\* The debug build: NDEBUG and VSHAREDPTR_SAFETY_CHECKS are not defined.
safety_checks_enabled == TRUE
\* Runtime (Ptr.hpp 144-146), and the sizes of a header with a small payload
\* and of one with a payload larger than hard_limit.
alloc_trigger == 128
sweep_budget == 262144
hard_limit == 8388608
SmallSize == 96
HugeSize == 8388704

VARIABLES
    \* ---- TC: global state (gc.cpp 16-19)
    all_objects,    \* std::vector<gc_object*>: the registry, in order
    gc_counter,     \* std::atomic<long>: countdown to the next automatic cycle
    \* ---- TC: gc_object fields (gc.h 65-90), indexed by object id
    root_ref_cnt,   \* std::atomic<int>
    first,          \* head of the intrusive list of embedded handles
    mark,           \* bool
    ostate,         \* "none" | "live" | "detached" | "destroyed" | "freed"
    dtor_calls,     \* how often the destructor thunk has run on the object
    free_calls,     \* how often ::operator delete has run on the object
    \* ---- TC: gc_base_ptr fields (gc.h 96-123), indexed by handle id
    type,           \* "ROOT" | "GC_HEAP", fixed at construction
    next,           \* link in the enclosing object's list
    object,         \* the referent
    halive,         \* the handle is constructed and not destroyed
    \* ---- TC: what the last operation was ("init" | "mutate" | "collect")
    \* and what the last cycle swept
    last_op,
    last_garbage,
    cycles_in,      \* in how many cycles' garbage vectors the object has been
    \* ---- TC: threads
    pc,             \* where each thread is in the operation it runs
    tl,             \* the locals of that operation
    stack,          \* the gc_collect() activations of the thread, innermost
                    \* last: the garbage vector, the index of the object
                    \* being finalised and the place the call returns to
    gc_mutex,       \* std::mutex (gc.cpp 16): TRUE while a thread holds it
    \* ---- RC: ControlBlock objects (VSharedPtr.hpp 165-181), by block id
    cb,             \* the fields of the block, and what has happened to it
    object_mutex_,  \* std::shared_mutex: the exclusive and the shared holders
    \* ---- RC: VSharedPtr objects (VSharedPtr.hpp 378-379), by handle id
    hd,             \* ctrl_, is_weak_, and whether the handle is constructed
    shared,         \* the handles that every thread may use
    \* ---- RC: threads and the last operation
    rpc,            \* where each thread is in the operation it runs
    rtl,            \* the locals of that operation
    rlast,          \* the last completed operation and its operands
    \* ---- TC: New<T> as a sequence of steps of one thread (gc.h 213-327)
    current,        \* thread_local gc_object* current (gc.cpp 17)
    frames,         \* the New<T> activations of the thread, innermost last:
                    \* new_obj, parent, the New object r, and how far the
                    \* payload constructor has got
    \* ---- TC: New<T[]> as a sequence of steps (gc.h 273-327)
    arr,            \* the array being constructed: its header, the New
                    \* object, size, parent, constructed_end, the iterator
                    \* of std::destroy, and what has happened to each element
    \* ---- TC: Ptr<T> objects (gc.h 138-200), by handle id
    ptr,            \* T* ptr: the object whose payload get() points into,
                    \* 0 for nullptr
    \* ---- Runtime collector (Ptr.hpp)
    rt,             \* the fields of Runtime (Ptr.hpp 134-142)
    hdr,            \* the Header objects, by header id
    rp,             \* the Ptr<T> variables of the program: header, and
                    \* whether the variable is constructed
    rtpc            \* where the thread is inside GC::New, and the last
                    \* operation it completed

\* The state of the step-by-step New<T>.
nwVars == << current, frames >>

\* The state of the step-by-step New<T[]>.
arVars == << arr >>

\* The state that only the later sections of the model change.
\* The state of the Runtime collector of Ptr.hpp.
rtVars == << rt, hdr, rp, rtpc >>

extVars == << nwVars, arVars, ptr, rtVars >>

\* What the steps of New<T>, and those of New<T[]>, leave alone of it.
nwRest == << arVars, ptr, rtVars >>
arRest == << frames, ptr, rtVars >>
ptrRest == << nwVars, arVars, rtVars >>
rtRest == << nwVars, arVars, ptr >>

tcOnly == << all_objects, gc_counter, root_ref_cnt, first, mark, ostate,
             dtor_calls, free_calls, type, next, object, halive,
             last_op, last_garbage, cycles_in >>

tcVars == << tcOnly, extVars >>

thrVars == << pc, tl, stack, gc_mutex >>

rcOnly == << cb, object_mutex_, hd, shared, rpc, rtl, rlast >>

rcVars == << rcOnly, extVars >>

vars == << tcVars, thrVars, rcVars >>

-----------------------------------------------------------------------------
(***************************************************************************)
(* TC: identities and storage layout.                                      *)
(***************************************************************************)
Objs == 1 .. MaxObjs
Threads == 1 .. NumThreads
\* The handles on the stack: thread 1 is the thread that allocates and holds
\* handles; the other threads call gc_collect() only.
RootHandles == 1 .. NumRoots
RootsOf(t) == IF t = 1 THEN RootHandles ELSE { }
\* The handles stored inside the payload [start, end) of object o.
EmbHandle(o, k) == NumRoots + (o - 1) * EmbPerObj + k
EmbHandles(o) == { EmbHandle(o, k) : k \in 1 .. EmbPerObj }
Handles == 1 .. (NumRoots + MaxObjs * EmbPerObj)

\* current->start() <= this < current->end()
Inside(h, o) == h \in EmbHandles(o)

\* The tag a handle gets at construction, from the thread's `current`.
Classify(h, cur) ==
    IF cur # 0 /\ Inside(h, cur) THEN "GC_HEAP" ELSE "ROOT"

Max(a, b) == IF a >= b THEN a ELSE b

SeqToSet(s) == { s[i] : i \in 1 .. Len(s) }

-----------------------------------------------------------------------------
(***************************************************************************)
(* RC: identities.  The managed object of control block c is object c: a   *)
(* block is made for a pointer that new T has just returned.  size_t is    *)
(* narrowed to CountBits bits.                                             *)
(***************************************************************************)
CBs == 1 .. MaxCBs
RHandles == 1 .. NumRC
\* The threads that use VSharedPtr handles.
RThreads == 1 .. NumRCThreads
SizeMod == 2 ^ CountBits

\* A block that has not been allocated.  state, obj_deletes, cb_deletes, uaf
\* and zeroed are not fields of the class: they record whether the block is
\* allocated, how often delete p and delete this have run, whether a field
\* was accessed after delete this, whether the strong count has been 0, and
\* the thread whose compare_exchange set object_destroyed_.
NoCB ==
    [ state |-> "none", gc_strong_count_ |-> 0, gc_weak_count_ |-> 0,
      ptr_ |-> 0, object_destroyed_ |-> FALSE,
      magic_header_ |-> "alive", magic_footer_ |-> "alive",
      control_block_destroyed_ |-> FALSE,
      obj_deletes |-> 0, cb_deletes |-> 0, uaf |-> FALSE, zeroed |-> FALSE,
      winner |-> 0 ]

\* constexpr VSharedPtr() noexcept : ctrl_(nullptr), is_weak_(false)
NullHandle == [ live |-> TRUE, ctrl_ |-> 0, is_weak_ |-> FALSE ]

NoHandle == [ live |-> FALSE, ctrl_ |-> 0, is_weak_ |-> FALSE ]

FreeMutex == [ excl |-> 0, shared |-> { } ]

NoRLocals ==
    [ op |-> "none", h |-> 0, d |-> 0, c |-> 0, w |-> FALSE, p |-> 0, n |-> 0 ]

NoLast == [ op |-> "init", d |-> 0, s |-> 0, res |-> FALSE ]

\* No RC object exists.
RCNone ==
    /\ cb = [c \in CBs |-> NoCB]
    /\ object_mutex_ = [c \in CBs |-> FreeMutex]
    /\ hd = [h \in RHandles |-> NoHandle]
    /\ shared = { }
    /\ rpc = [t \in RThreads |-> "idle"]
    /\ rtl = [t \in RThreads |-> NoRLocals]
    /\ rlast = NoLast

-----------------------------------------------------------------------------
(***************************************************************************)
(* TC: root-count helpers.                                                 *)
(***************************************************************************)
inc_root(rc, o) == [rc EXCEPT ![o] = @ + 1]

\* (mutant) dec_root that does not count.
dec_root_None(rc, o) == rc

dec_root(rc, o) == [rc EXCEPT ![o] = @ - 1]


-----------------------------------------------------------------------------
(***************************************************************************)
(* TC: gc_collect, phases 1 to 3 (under gc_mutex).                         *)
(***************************************************************************)
\* (mutant) phase 1 seeds from every object, whatever its root count.
IsSeed_Always(c) == root_ref_cnt[c] >= 0

\* Phase 1 seeds from an object iff its root count is not zero.
IsSeed(c) == root_ref_cnt[c] # 0

\* for (j = c->first; j != nullptr; j = j->next) if (o = j->object) push(o)
RECURSIVE Referents(_)
Referents(j) ==
    IF j = 0 THEN << >>
    ELSE (IF object[j] # 0 THEN << object[j] >> ELSE << >>)
         \o Referents(next[j])

\* (mutant) phase 2 marks the popped object and forgets its referents.
UnmarkedReferents_None(c, mk) == << >>

\* Phase 2 pushes a referent only when it is not marked yet.
UnmarkedReferents(c, mk) ==
    SelectSeq(Referents(first[c]), LAMBDA o : ~ mk[o])

\* Phase 1: walk the registry from index i; mk is the mark bits so far and
\* pend the pending vector so far.
RECURSIVE Seed(_, _, _)
Seed(i, mk, pend) ==
    IF i > Len(all_objects) THEN << mk, pend >>
    ELSE LET c == all_objects[i] IN
         IF IsSeed(c)
         THEN Seed(i + 1, [mk EXCEPT ![c] = TRUE],
                   pend \o Referents(first[c]))
         ELSE Seed(i + 1, [mk EXCEPT ![c] = FALSE], pend)

\* Phase 2: pop from the back of pending until it is empty.
RECURSIVE Propagate(_, _)
Propagate(mk, pend) ==
    IF pend = << >> THEN mk
    ELSE LET c    == pend[Len(pend)]
             rest == SubSeq(pend, 1, Len(pend) - 1)
         IN  IF mk[c] THEN Propagate(mk, rest)
             ELSE LET mk2 == [mk EXCEPT ![c] = TRUE]
                  IN  Propagate(mk2, rest \o UnmarkedReferents(c, mk2))

\* The mark bits at the end of phase 2.
Marked ==
    LET s == Seed(1, mark, << >>) IN Propagate(s[1], s[2])

\* (mutant) phase 3 copies the garbage out and erases nothing.
Partition_NoErase(mk) ==
    [ live    |-> all_objects,
      garbage |-> SelectSeq(all_objects, LAMBDA o : ~ mk[o]) ]

\* Phase 3: std::stable_partition, live first, and the recalibrated countdown.
Partition(mk) ==
    [ live    |-> SelectSeq(all_objects, LAMBDA o : mk[o]),
      garbage |-> SelectSeq(all_objects, LAMBDA o : ~ mk[o]) ]

\* (mutant) a cycle that counts itself down.
Recalibrate_Less(n) == gc_counter - 1

Recalibrate(n) == Max(n * 2, GcCounterFloor)

\* (mutant) gc_collect that still holds gc_mutex when its locked block is
\* over.
CollectLocked_KeepsLock(cnt) ==
    IF all_objects = << >>
    THEN [ live |-> << >>, garbage |-> << >>, mark |-> mark,
           counter |-> cnt, locked |-> FALSE ]
    ELSE LET mk == Marked
             p  == Partition(mk)
         IN  [ live |-> p.live, garbage |-> p.garbage, mark |-> mk,
               counter |-> Recalibrate(Len(p.live)), locked |-> TRUE ]

\* (mutant) gc_collect that leaves gc_counter as it finds it.
CollectLocked_NoRecal(cnt) ==
    IF all_objects = << >>
    THEN [ live |-> << >>, garbage |-> << >>, mark |-> mark,
           counter |-> cnt, locked |-> FALSE ]
    ELSE LET mk == Marked
             p  == Partition(mk)
         IN  [ live |-> p.live, garbage |-> p.garbage, mark |-> mk,
               counter |-> cnt, locked |-> FALSE ]

\* What the locked part of gc_collect computes from the current state, cnt
\* being the value of gc_counter on entry.  With an empty registry gc_collect
\* returns at once and changes nothing.  locked: whether gc_mutex is held
\* when the block is left; the unique_lock is destroyed with the block, before
\* the destructors are invoked.
CollectLocked(cnt) ==
    IF all_objects = << >>
    THEN [ live |-> << >>, garbage |-> << >>, mark |-> mark,
           counter |-> cnt, locked |-> FALSE ]
    ELSE LET mk == Marked
             p  == Partition(mk)
         IN  [ live |-> p.live, garbage |-> p.garbage, mark |-> mk,
               counter |-> Recalibrate(Len(p.live)), locked |-> FALSE ]

(***************************************************************************)
(* TC: phases 4 and 5.  The destructor thunk destroys the payload, and     *)
(* with it the handles embedded in it; ~gc_base_ptr of a ROOT handle drops *)
(* a root reference, that of a GC_HEAP handle does nothing.                *)
(***************************************************************************)
DtorHandle(rc, h) ==
    IF type[h] = "ROOT" /\ object[h] # 0 THEN dec_root(rc, object[h]) ELSE rc

RECURSIVE DtorHandles(_, _)
DtorHandles(rc, hs) ==
    IF hs = { } THEN rc
    ELSE LET h == CHOOSE x \in hs : TRUE
         IN  DtorHandles(IF halive[h] THEN DtorHandle(rc, h) ELSE rc,
                         hs \ { h })

PayloadHandles(G) == UNION { EmbHandles(o) : o \in G }


\* The state after phases 4 and 5 of a cycle whose locked part computed c,
\* when no finaliser allocates: every garbage object is destroyed and freed.
Swept(c) ==
    LET G == SeqToSet(c.garbage) IN
    [ all_objects  |-> c.live,
      mark         |-> c.mark,
      gc_counter   |-> c.counter,
      root_ref_cnt |-> DtorHandles(root_ref_cnt, PayloadHandles(G)),
      halive       |-> [h \in Handles |->
                          IF h \in PayloadHandles(G) THEN FALSE ELSE halive[h]],
      ostate       |-> [o \in Objs |-> IF o \in G THEN "freed" ELSE ostate[o]],
      dtor_calls   |-> [o \in Objs |-> dtor_calls[o] + (IF o \in G THEN 1 ELSE 0)],
      free_calls   |-> [o \in Objs |-> free_calls[o] + (IF o \in G THEN 1 ELSE 0)],
      cycles_in    |-> [o \in Objs |-> cycles_in[o] + (IF o \in G THEN 1 ELSE 0)],
      garbage      |-> c.garbage ]

\* The state when no cycle runs.
Unswept(cnt) ==
    [ all_objects  |-> all_objects,
      mark         |-> mark,
      gc_counter   |-> cnt,
      root_ref_cnt |-> root_ref_cnt,
      halive       |-> halive,
      ostate       |-> ostate,
      dtor_calls   |-> dtor_calls,
      free_calls   |-> free_calls,
      cycles_in    |-> cycles_in,
      garbage      |-> last_garbage ]

-----------------------------------------------------------------------------
(***************************************************************************)
(* TC: the handles and objects a program can name.  A program reaches an   *)
(* object only through a handle: its own ROOT handles, and the handles     *)
(* embedded in an object it has reached.                                   *)
(***************************************************************************)
RECURSIVE Closure(_)
Closure(S) ==
    LET T == S \cup { object[h] : h \in { x \in PayloadHandles(S) : halive[x] } }
    IN  IF T \ { 0 } = S THEN S ELSE Closure(T \ { 0 })

ProgObjs == Closure({ object[r] : r \in { x \in RootHandles : halive[x] } } \ { 0 })

Usable(h) ==
    /\ halive[h]
    /\ \/ h \in RootHandles
       \/ \E o \in ProgObjs : Inside(h, o) /\ ostate[o] = "live"

FreshObj == CHOOSE o \in Objs : ostate[o] = "none" /\ \A p \in Objs : ostate[p] = "none" => o <= p

-----------------------------------------------------------------------------
(***************************************************************************)
(* TC: the operations of a single thread, each a whole call.               *)
(***************************************************************************)
\* The payload constructor of New<T>, run with current = n: it constructs the
\* embedded handles k .. EmbPerObj of n, each by gc_base_ptr(nullptr).
RECURSIVE ConstructMembers(_, _, _)
ConstructMembers(n, k, st) ==
    IF k > EmbPerObj THEN st
    ELSE LET h == EmbHandle(n, k)
             t == Classify(h, n)
         IN  ConstructMembers(n, k + 1,
               [ type   |-> [st.type EXCEPT ![h] = t],
                 object |-> [st.object EXCEPT ![h] = 0],
                 next   |-> [st.next EXCEPT ![h] =
                               IF t = "GC_HEAP" THEN st.first[n] ELSE 0],
                 first  |-> IF t = "GC_HEAP"
                            THEN [st.first EXCEPT ![n] = h] ELSE st.first,
                 halive |-> [st.halive EXCEPT ![h] = TRUE] ])

\* auto r = New<T>(): the handle r is the New<T> object itself.
TNew(r) ==
    /\ ~ halive[r]
    /\ \E o \in Objs : ostate[o] = "none"
    /\ LET n    == FreshObj
           cnt  == gc_counter - 1
           s    == IF cnt < 0 THEN Swept(CollectLocked(cnt)) ELSE Unswept(cnt)
           t    == Classify(r, 0)
           st   == ConstructMembers(n, 1,
                     [ type   |-> [type EXCEPT ![r] = t],
                       object |-> [object EXCEPT ![r] = n],
                       next   |-> [next EXCEPT ![r] = 0],
                       first  |-> [first EXCEPT ![n] = 0],
                       halive |-> [s.halive EXCEPT ![r] = TRUE] ])
       IN  /\ all_objects' = Append(s.all_objects, n)
           /\ gc_counter' = s.gc_counter
           /\ mark' = [s.mark EXCEPT ![n] = FALSE]
           /\ root_ref_cnt' = [s.root_ref_cnt EXCEPT
                                 ![n] = IF t = "ROOT" THEN 1 ELSE 0]
           /\ ostate' = [s.ostate EXCEPT ![n] = "live"]
           /\ dtor_calls' = s.dtor_calls
           /\ free_calls' = s.free_calls
           /\ type' = st.type
           /\ object' = st.object
           /\ next' = st.next
           /\ first' = st.first
           /\ halive' = st.halive
           /\ last_garbage' = s.garbage
           /\ cycles_in' = s.cycles_in
    /\ last_op' = "mutate"
    /\ UNCHANGED << thrVars, rcVars >>

\* Ptr<T> r;  gc_base_ptr(nullptr) outside any object under construction.
TDefault(r) ==
    /\ ~ halive[r]
    /\ type' = [type EXCEPT ![r] = Classify(r, 0)]
    /\ object' = [object EXCEPT ![r] = 0]
    /\ next' = [next EXCEPT ![r] = 0]
    /\ halive' = [halive EXCEPT ![r] = TRUE]
    /\ last_op' = "mutate"
    /\ UNCHANGED << thrVars, rcVars >>
    /\ UNCHANGED << all_objects, gc_counter, root_ref_cnt, first, mark, ostate,
                    dtor_calls, free_calls, last_garbage, cycles_in >>

\* Ptr<T> r(s);  gc_base_ptr(const gc_base_ptr&) delegates to
\* gc_base_ptr(s.object).
TCopyCtor(r, s) ==
    /\ ~ halive[r]
    /\ Usable(s)
    /\ LET o == object[s] IN
       /\ type' = [type EXCEPT ![r] = Classify(r, 0)]
       /\ object' = [object EXCEPT ![r] = o]
       /\ next' = [next EXCEPT ![r] = 0]
       /\ root_ref_cnt' = IF o # 0 THEN inc_root(root_ref_cnt, o)
                          ELSE root_ref_cnt
    /\ halive' = [halive EXCEPT ![r] = TRUE]
    /\ last_op' = "mutate"
    /\ UNCHANGED << thrVars, rcVars >>
    /\ UNCHANGED << all_objects, gc_counter, first, mark, ostate,
                    dtor_calls, free_calls, last_garbage, cycles_in >>

\* Ptr<T> r(std::move(s));  a ROOT source gives its reference away.
TMoveCtor(r, s) ==
    /\ ~ halive[r]
    /\ Usable(s)
    /\ LET o2 == object[s] IN
       /\ type' = [type EXCEPT ![r] = Classify(r, 0)]
       /\ next' = [next EXCEPT ![r] = 0]
       /\ IF o2 # 0 /\ type[s] = "ROOT"
          THEN /\ object' = [object EXCEPT ![r] = o2, ![s] = 0]
               /\ root_ref_cnt' = root_ref_cnt
          ELSE /\ object' = [object EXCEPT ![r] = o2]
               /\ root_ref_cnt' = IF o2 # 0 THEN inc_root(root_ref_cnt, o2)
                                  ELSE root_ref_cnt
    /\ halive' = [halive EXCEPT ![r] = TRUE]
    /\ last_op' = "mutate"
    /\ UNCHANGED << thrVars, rcVars >>
    /\ UNCHANGED << all_objects, gc_counter, first, mark, ostate,
                    dtor_calls, free_calls, last_garbage, cycles_in >>

\* d = nullptr
TNullAssign(d) ==
    /\ Usable(d)
    /\ object' = [object EXCEPT ![d] = 0]
    /\ root_ref_cnt' = IF type[d] = "ROOT" /\ object[d] # 0
                       THEN dec_root(root_ref_cnt, object[d])
                       ELSE root_ref_cnt
    /\ last_op' = "mutate"
    /\ UNCHANGED << thrVars, rcVars >>
    /\ UNCHANGED << all_objects, gc_counter, first, mark, ostate, dtor_calls,
                    free_calls, type, next, halive, last_garbage,
                    cycles_in >>

\* d.reset()
TReset(d) ==
    /\ Usable(d)
    /\ object' = [object EXCEPT ![d] = 0]
    /\ root_ref_cnt' = IF type[d] = "ROOT" /\ object[d] # 0
                       THEN dec_root(root_ref_cnt, object[d])
                       ELSE root_ref_cnt
    /\ last_op' = "mutate"
    /\ UNCHANGED << thrVars, rcVars >>
    /\ UNCHANGED << all_objects, gc_counter, first, mark, ostate, dtor_calls,
                    free_calls, type, next, halive, last_garbage,
                    cycles_in >>

\* d = s
TCopyAssign(d, s) ==
    /\ Usable(d) /\ Usable(s)
    /\ LET o1 == object[d]
           o2 == object[s]
       IN  IF o1 = o2
           THEN UNCHANGED << object, root_ref_cnt >>
           ELSE /\ object' = [object EXCEPT ![d] = o2]
                /\ root_ref_cnt' =
                     IF type[d] = "GC_HEAP" THEN root_ref_cnt
                     ELSE LET rc1 == IF o1 # 0 THEN dec_root(root_ref_cnt, o1)
                                     ELSE root_ref_cnt
                          IN  IF o2 # 0 THEN inc_root(rc1, o2) ELSE rc1
    /\ last_op' = "mutate"
    /\ UNCHANGED << thrVars, rcVars >>
    /\ UNCHANGED << all_objects, gc_counter, first, mark, ostate, dtor_calls,
                    free_calls, type, next, halive, last_garbage,
                    cycles_in >>

\* d = std::move(s)
TMoveAssign(d, s) ==
    /\ Usable(d) /\ Usable(s)
    /\ LET o1 == object[d]
           o2 == object[s]
       IN  IF o1 = o2
           THEN UNCHANGED << object, root_ref_cnt >>
           ELSE IF type[d] = "GC_HEAP"
           THEN /\ object' = [object EXCEPT ![d] = o2]
                /\ root_ref_cnt' = root_ref_cnt
           ELSE IF type[s] = "ROOT"
           THEN /\ object' = [object EXCEPT ![d] = o2, ![s] = o1]
                /\ root_ref_cnt' = root_ref_cnt
           ELSE /\ object' = [object EXCEPT ![d] = o2]
                /\ root_ref_cnt' =
                     LET rc1 == IF o1 # 0 THEN dec_root(root_ref_cnt, o1)
                                ELSE root_ref_cnt
                     IN  IF o2 # 0 THEN inc_root(rc1, o2) ELSE rc1
    /\ last_op' = "mutate"
    /\ UNCHANGED << thrVars, rcVars >>
    /\ UNCHANGED << all_objects, gc_counter, first, mark, ostate, dtor_calls,
                    free_calls, type, next, halive, last_garbage,
                    cycles_in >>

\* A ROOT handle goes out of scope.
TDtor(r) ==
    /\ r \in RootHandles
    /\ halive[r]
    /\ root_ref_cnt' = DtorHandle(root_ref_cnt, r)
    /\ halive' = [halive EXCEPT ![r] = FALSE]
    /\ object' = [object EXCEPT ![r] = 0]
    /\ last_op' = "mutate"
    /\ UNCHANGED << thrVars, rcVars >>
    /\ UNCHANGED << all_objects, gc_counter, first, mark, ostate, dtor_calls,
                    free_calls, type, next, last_garbage, cycles_in >>

\* gc_collect() with no other thread running.
TCollect ==
    /\ LET s == Swept(CollectLocked(gc_counter)) IN
       /\ all_objects' = s.all_objects
       /\ mark' = s.mark
       /\ gc_counter' = s.gc_counter
       /\ root_ref_cnt' = s.root_ref_cnt
       /\ halive' = s.halive
       /\ ostate' = s.ostate
       /\ dtor_calls' = s.dtor_calls
       /\ free_calls' = s.free_calls
       /\ last_garbage' = s.garbage
       /\ cycles_in' = s.cycles_in
    /\ last_op' = "collect"
    /\ UNCHANGED << thrVars, rcVars >>
    /\ UNCHANGED << first, type, next, object >>

NoLocals == [ d |-> 0, s |-> 0, o |-> 0 ]

\* Runtime collector: the headers and the Ptr variables of the program.
Hdrs == 1 .. MaxHeaders
RtPtrs == 1 .. NumRtPtrs

\* Runtime() = default: the fields as initialised at Ptr.hpp 134-142.  uaf
\* is not a field: it records that mark() has followed a root to a header
\* whose storage was released.
NoRuntime ==
    [ objects |-> { }, roots |-> { }, mutex |-> FALSE, allocated |-> 0,
      alloc_counter |-> 0, pending_full_gc |-> FALSE,
      pending_incremental_gc |-> FALSE, gc_running |-> FALSE, uaf |-> FALSE ]

\* A header that has not been allocated.  state, kind and destroys are not
\* fields: whether the storage is allocated, the type T of the payload, and
\* how often the destroy callback has run.
NoHeader ==
    [ state |-> "none", marked |-> FALSE, size |-> 0, kind |-> "plain",
      destroys |-> 0 ]

\* Ptr() = default, and a variable that is not constructed.
NullPtr == [ live |-> TRUE, header |-> 0 ]
NoPtr == [ live |-> FALSE, header |-> 0 ]

\* The thread is in no call; op and p are the operation it completed last.
RtIdle(op, p) ==
    [ pc |-> "idle", op |-> op, p |-> p, h |-> 0, full |-> FALSE,
      freed |-> 0, added |-> { } ]

\* No New<T[]> has been called.  state, calls and log are not fields of the
\* program: they record whether element i - 1 holds a T, how often ~T() has
\* run on it, and the elements in the order the catch block destroyed them.
NoArray ==
    [ pc |-> "idle", obj |-> 0, r |-> 0, size |-> 0, parent |-> 0,
      constructed_end |-> 0, it |-> 0, state |-> << >>, calls |-> << >>,
      log |-> << >> ]

\* No TC object exists and no thread is in an operation.
TCIdle ==
    /\ all_objects = << >>
    /\ gc_counter = GcCounterInit
    /\ root_ref_cnt = [o \in Objs |-> 0]
    /\ first = [o \in Objs |-> 0]
    /\ mark = [o \in Objs |-> FALSE]
    /\ ostate = [o \in Objs |-> "none"]
    /\ dtor_calls = [o \in Objs |-> 0]
    /\ free_calls = [o \in Objs |-> 0]
    /\ type = [h \in Handles |-> "ROOT"]
    /\ next = [h \in Handles |-> 0]
    /\ object = [h \in Handles |-> 0]
    /\ halive = [h \in Handles |-> FALSE]
    /\ last_op = "init"
    /\ last_garbage = << >>
    /\ cycles_in = [o \in Objs |-> 0]
    /\ pc = [t \in Threads |-> "idle"]
    /\ tl = [t \in Threads |-> NoLocals]
    /\ stack = [t \in Threads |-> << >>]
    /\ gc_mutex = FALSE
    /\ current = 0
    /\ frames = << >>
    /\ arr = NoArray
    /\ ptr = [h \in Handles |-> 0]
    /\ rt = NoRuntime
    /\ hdr = [h \in Hdrs |-> NoHeader]
    /\ rp = [p \in RtPtrs |-> NoPtr]
    /\ rtpc = RtIdle("init", 0)

TCInit == TCIdle /\ RCNone

\* The single-threaded program: thread 1 runs whole operations.
TCNext ==
    \/ \E r \in RootsOf(1) : TNew(r)
    \/ \E r \in RootsOf(1) : TDefault(r)
    \/ \E r \in RootsOf(1), s \in Handles : TCopyCtor(r, s)
    \/ \E r \in RootsOf(1), s \in Handles : TMoveCtor(r, s)
    \/ \E d \in Handles : TNullAssign(d)
    \/ \E d \in Handles : TReset(d)
    \/ \E d \in Handles, s \in Handles : TCopyAssign(d, s)
    \/ \E d \in Handles, s \in Handles : TMoveAssign(d, s)
    \/ \E r \in RootsOf(1) : TDtor(r)
    \/ TCollect

SpecTC == TCInit /\ [][TCNext]_vars


-----------------------------------------------------------------------------
(***************************************************************************)
(* TC: the two assignments as functions of the handle slots and the root   *)
(* counts, st = [object, root_ref_cnt], and the program                    *)
(*     d = nullptr;  d = s;                                                *)
(* run by one thread with nothing between the two statements.              *)
(***************************************************************************)
\* (mutant) operator=(nullptr_t) that keeps the root reference.
null_assign_Keep(st, d) ==
    [ object |-> [st.object EXCEPT ![d] = 0], root_ref_cnt |-> st.root_ref_cnt ]

\* gc_base_ptr::operator=(nullptr_t)
null_assign(st, d) ==
    [ object       |-> [st.object EXCEPT ![d] = 0],
      root_ref_cnt |-> IF type[d] = "ROOT" /\ st.object[d] # 0
                       THEN dec_root(st.root_ref_cnt, st.object[d])
                       ELSE st.root_ref_cnt ]

\* gc_base_ptr::operator=(const gc_base_ptr&)
copy_assign(st, d, s) ==
    LET o1 == st.object[d]
        o2 == st.object[s]
    IN  IF o1 = o2 THEN st
        ELSE [ object       |-> [st.object EXCEPT ![d] = o2],
               root_ref_cnt |->
                  IF type[d] = "GC_HEAP" THEN st.root_ref_cnt
                  ELSE LET rc1 == IF o1 # 0 THEN dec_root(st.root_ref_cnt, o1)
                                  ELSE st.root_ref_cnt
                       IN  IF o2 # 0 THEN inc_root(rc1, o2) ELSE rc1 ]

\* d = nullptr; d = s;  where s is another handle with the referent of d.
TRoundTrip(d, s) ==
    /\ Usable(d) /\ Usable(s)
    /\ d # s
    /\ object[d] # 0 /\ object[s] = object[d]
    /\ LET st == copy_assign(null_assign(
                    [ object |-> object, root_ref_cnt |-> root_ref_cnt ], d),
                    d, s)
       IN  /\ object' = st.object
           /\ root_ref_cnt' = st.root_ref_cnt
    /\ last_op' = "round_trip"
    /\ UNCHANGED << thrVars, rcVars >>
    /\ UNCHANGED << all_objects, gc_counter, first, mark, ostate, dtor_calls,
                    free_calls, type, next, halive, last_garbage,
                    cycles_in >>

TCRNext ==
    \/ \E r \in RootsOf(1) : TNew(r)
    \/ \E r \in RootsOf(1), s \in Handles : TCopyCtor(r, s)
    \/ \E d \in Handles, s \in Handles : TCopyAssign(d, s)
    \/ \E d \in Handles : TNullAssign(d)
    \/ \E r \in RootsOf(1) : TDtor(r)
    \/ TCollect
    \/ \E d \in Handles, s \in Handles : TRoundTrip(d, s)

SpecTCR == TCInit /\ [][TCRNext]_vars

-----------------------------------------------------------------------------
(***************************************************************************)
(* TC: the two moves as functions of the handle slots and the root counts, *)
(* st = [object, root_ref_cnt]; tr is the kind of the handle that the move *)
(* constructor is building.                                                *)
(***************************************************************************)
\* (mutant) a move constructor that copies: the new ROOT handle takes a
\* reference of its own and the source keeps its referent.
move_ctor_Copies(st, tr, r, s) ==
    LET o2 == st.object[s] IN
    [ object       |-> [st.object EXCEPT ![r] = o2],
      root_ref_cnt |-> IF tr = "ROOT" /\ o2 # 0
                       THEN inc_root(st.root_ref_cnt, o2)
                       ELSE st.root_ref_cnt ]

\* gc_base_ptr::gc_base_ptr(gc_base_ptr&& o), gc.cpp 135-172
move_ctor(st, tr, r, s) ==
    LET o2 == st.object[s] IN
    IF tr = "GC_HEAP"
    THEN [ object       |-> [st.object EXCEPT ![r] = o2],
           root_ref_cnt |-> st.root_ref_cnt ]
    ELSE IF o2 # 0 /\ type[s] = "ROOT"
    THEN [ object       |-> [st.object EXCEPT ![r] = o2, ![s] = 0],
           root_ref_cnt |-> st.root_ref_cnt ]
    ELSE [ object       |-> [st.object EXCEPT ![r] = o2],
           root_ref_cnt |-> IF o2 # 0 THEN inc_root(st.root_ref_cnt, o2)
                            ELSE st.root_ref_cnt ]

\* gc_base_ptr::operator=(gc_base_ptr&& o), gc.cpp 215-246
move_assign(st, d, s) ==
    LET o1 == st.object[d]
        o2 == st.object[s]
    IN  IF o1 = o2 THEN st
        ELSE IF type[d] = "GC_HEAP"
        THEN [ object       |-> [st.object EXCEPT ![d] = o2],
               root_ref_cnt |-> st.root_ref_cnt ]
        ELSE IF type[s] = "ROOT"
        THEN [ object       |-> [st.object EXCEPT ![d] = o2, ![s] = o1],
               root_ref_cnt |-> st.root_ref_cnt ]
        ELSE [ object       |-> [st.object EXCEPT ![d] = o2],
               root_ref_cnt |->
                  LET rc1 == IF o1 # 0 THEN dec_root(st.root_ref_cnt, o1)
                             ELSE st.root_ref_cnt
                  IN  IF o2 # 0 THEN inc_root(rc1, o2) ELSE rc1 ]

Slots == [ object |-> object, root_ref_cnt |-> root_ref_cnt ]

\* Ptr<T> r(std::move(s));  r is a variable of the thread, not a member.
TMoveConstruct(r, s) ==
    /\ ~ halive[r]
    /\ Usable(s)
    /\ LET tr == Classify(r, 0)
           st == move_ctor(Slots, tr, r, s)
       IN  /\ type' = [type EXCEPT ![r] = tr]
           /\ object' = st.object
           /\ root_ref_cnt' = st.root_ref_cnt
    /\ next' = [next EXCEPT ![r] = 0]
    /\ halive' = [halive EXCEPT ![r] = TRUE]
    /\ last_op' = "move_ctor"
    /\ UNCHANGED << thrVars, rcVars >>
    /\ UNCHANGED << all_objects, gc_counter, first, mark, ostate,
                    dtor_calls, free_calls, last_garbage, cycles_in >>

\* d = std::move(s);
TMoveAssigned(d, s) ==
    /\ Usable(d) /\ Usable(s)
    /\ LET st == move_assign(Slots, d, s) IN
       /\ object' = st.object
       /\ root_ref_cnt' = st.root_ref_cnt
    /\ last_op' = "move_assign"
    /\ UNCHANGED << thrVars, rcVars >>
    /\ UNCHANGED << all_objects, gc_counter, first, mark, ostate, dtor_calls,
                    free_calls, type, next, halive, last_garbage,
                    cycles_in >>

TCMNext ==
    \/ \E r \in RootsOf(1) : TNew(r)
    \/ \E r \in RootsOf(1) : TDefault(r)
    \/ \E r \in RootsOf(1), s \in Handles : TCopyCtor(r, s)
    \/ \E r \in RootsOf(1), s \in Handles : TMoveConstruct(r, s)
    \/ \E d \in Handles : TNullAssign(d)
    \/ \E d \in Handles, s \in Handles : TCopyAssign(d, s)
    \/ \E d \in Handles, s \in Handles : TMoveAssigned(d, s)
    \/ \E r \in RootsOf(1) : TDtor(r)
    \/ TCollect

SpecTCM == TCInit /\ [][TCMNext]_vars

-----------------------------------------------------------------------------
(***************************************************************************)
(* TC: the operations of Ptr<T> (gc.h 138-191), which run the operation of *)
(* gc_base_ptr and then set the display pointer ptr.  One thread, each     *)
(* operation a whole call; no finaliser allocates.                         *)
(***************************************************************************)
\* auto r = New<T>();  Ptr<T>::ptr = new_obj->start().  The Ptr members of
\* the payload are default-constructed: their ptr is nullptr.
PNew(r) ==
    /\ r \in RootHandles
    /\ ~ halive[r]
    /\ \E o \in Objs : ostate[o] = "none"
    /\ gc_counter - 1 >= 0
    /\ LET n  == FreshObj
           t  == Classify(r, 0)
           st == ConstructMembers(n, 1,
                   [ type   |-> [type EXCEPT ![r] = t],
                     object |-> [object EXCEPT ![r] = n],
                     next   |-> [next EXCEPT ![r] = 0],
                     first  |-> [first EXCEPT ![n] = 0],
                     halive |-> [halive EXCEPT ![r] = TRUE] ])
       IN  /\ all_objects' = Append(all_objects, n)
           /\ gc_counter' = gc_counter - 1
           /\ mark' = [mark EXCEPT ![n] = FALSE]
           /\ root_ref_cnt' = [root_ref_cnt EXCEPT
                                 ![n] = IF t = "ROOT" THEN 1 ELSE 0]
           /\ ostate' = [ostate EXCEPT ![n] = "live"]
           /\ type' = st.type
           /\ object' = st.object
           /\ next' = st.next
           /\ first' = st.first
           /\ halive' = st.halive
           /\ ptr' = [h \in Handles |->
                        IF h = r THEN n
                        ELSE IF h \in EmbHandles(n) THEN 0 ELSE ptr[h]]
    /\ last_op' = "mutate"
    /\ UNCHANGED << dtor_calls, free_calls, last_garbage, cycles_in >>
    /\ UNCHANGED << thrVars, rcOnly, ptrRest >>

\* Ptr<T> r;   ptr{ nullptr }
PDefault(r) ==
    /\ r \in RootHandles
    /\ ~ halive[r]
    /\ type' = [type EXCEPT ![r] = Classify(r, 0)]
    /\ object' = [object EXCEPT ![r] = 0]
    /\ next' = [next EXCEPT ![r] = 0]
    /\ halive' = [halive EXCEPT ![r] = TRUE]
    /\ ptr' = [ptr EXCEPT ![r] = 0]
    /\ last_op' = "mutate"
    /\ UNCHANGED << all_objects, gc_counter, root_ref_cnt, first, mark, ostate,
                    dtor_calls, free_calls, last_garbage, cycles_in >>
    /\ UNCHANGED << thrVars, rcOnly, ptrRest >>

\* Ptr(const Ptr& o) : gc_base_ptr(o) { ptr = o.ptr; }
PCopyCtor(r, s) ==
    /\ r \in RootHandles
    /\ ~ halive[r]
    /\ Usable(s)
    /\ LET o == object[s] IN
       /\ type' = [type EXCEPT ![r] = Classify(r, 0)]
       /\ object' = [object EXCEPT ![r] = o]
       /\ root_ref_cnt' = IF o # 0 THEN inc_root(root_ref_cnt, o)
                          ELSE root_ref_cnt
    /\ next' = [next EXCEPT ![r] = 0]
    /\ halive' = [halive EXCEPT ![r] = TRUE]
    /\ ptr' = [ptr EXCEPT ![r] = ptr[s]]
    /\ last_op' = "copy_ctor"
    /\ UNCHANGED << all_objects, gc_counter, first, mark, ostate,
                    dtor_calls, free_calls, last_garbage, cycles_in >>
    /\ UNCHANGED << thrVars, rcOnly, ptrRest >>

\* Ptr(Ptr&& o) : gc_base_ptr(std::move(o)) { ptr = o.ptr; }
PMoveCtor(r, s) ==
    /\ r \in RootHandles
    /\ ~ halive[r]
    /\ Usable(s)
    /\ LET tr == Classify(r, 0)
           st == move_ctor(Slots, tr, r, s)
       IN  /\ type' = [type EXCEPT ![r] = tr]
           /\ object' = st.object
           /\ root_ref_cnt' = st.root_ref_cnt
    /\ next' = [next EXCEPT ![r] = 0]
    /\ halive' = [halive EXCEPT ![r] = TRUE]
    /\ ptr' = [ptr EXCEPT ![r] = ptr[s]]
    /\ last_op' = "move_ctor"
    /\ UNCHANGED << all_objects, gc_counter, first, mark, ostate,
                    dtor_calls, free_calls, last_garbage, cycles_in >>
    /\ UNCHANGED << thrVars, rcOnly, ptrRest >>

\* Ptr::operator=(const Ptr& o):  gc_base_ptr::operator=(o); ptr = o.ptr;
PCopyAssign(d, s) ==
    /\ Usable(d) /\ Usable(s)
    /\ LET st == copy_assign(Slots, d, s) IN
       /\ object' = st.object
       /\ root_ref_cnt' = st.root_ref_cnt
    /\ ptr' = [ptr EXCEPT ![d] = ptr[s]]
    /\ last_op' = "copy_assign"
    /\ UNCHANGED << all_objects, gc_counter, first, mark, ostate, dtor_calls,
                    free_calls, type, next, halive, last_garbage, cycles_in >>
    /\ UNCHANGED << thrVars, rcOnly, ptrRest >>

\* Ptr::operator=(Ptr&& o):  gc_base_ptr::operator=(std::move(o));
\* ptr = o.ptr;
PMoveAssign(d, s) ==
    /\ Usable(d) /\ Usable(s)
    /\ LET st == move_assign(Slots, d, s) IN
       /\ object' = st.object
       /\ root_ref_cnt' = st.root_ref_cnt
    /\ ptr' = [ptr EXCEPT ![d] = ptr[s]]
    /\ last_op' = "move_assign"
    /\ UNCHANGED << all_objects, gc_counter, first, mark, ostate, dtor_calls,
                    free_calls, type, next, halive, last_garbage, cycles_in >>
    /\ UNCHANGED << thrVars, rcOnly, ptrRest >>

\* Ptr::operator=(nullptr_t):  gc_base_ptr::operator=(nullptr);
\* ptr = nullptr;
PNullAssign(d) ==
    /\ Usable(d)
    /\ LET st == null_assign(Slots, d) IN
       /\ object' = st.object
       /\ root_ref_cnt' = st.root_ref_cnt
    /\ ptr' = [ptr EXCEPT ![d] = 0]
    /\ last_op' = "null_assign"
    /\ UNCHANGED << all_objects, gc_counter, first, mark, ostate, dtor_calls,
                    free_calls, type, next, halive, last_garbage, cycles_in >>
    /\ UNCHANGED << thrVars, rcOnly, ptrRest >>

\* Ptr::reset():  ptr = nullptr; gc_base_ptr::reset();
PReset(d) ==
    /\ Usable(d)
    /\ object' = [object EXCEPT ![d] = 0]
    /\ root_ref_cnt' = IF type[d] = "ROOT" /\ object[d] # 0
                       THEN dec_root(root_ref_cnt, object[d])
                       ELSE root_ref_cnt
    /\ ptr' = [ptr EXCEPT ![d] = 0]
    /\ last_op' = "reset"
    /\ UNCHANGED << all_objects, gc_counter, first, mark, ostate, dtor_calls,
                    free_calls, type, next, halive, last_garbage, cycles_in >>
    /\ UNCHANGED << thrVars, rcOnly, ptrRest >>

\* The program uses the Ptr objects on its stack; ~Ptr() and gc_collect()
\* leave every ptr as it is.
PTNext ==
    \/ \E r \in RootHandles : PNew(r)
    \/ \E r \in RootHandles : PDefault(r)
    \/ \E r \in RootHandles, s \in RootHandles : PCopyCtor(r, s)
    \/ \E r \in RootHandles, s \in RootHandles : PMoveCtor(r, s)
    \/ \E d \in RootHandles, s \in RootHandles : PCopyAssign(d, s)
    \/ \E d \in RootHandles, s \in RootHandles : PMoveAssign(d, s)
    \/ \E d \in RootHandles : PNullAssign(d)
    \/ \E d \in RootHandles : PReset(d)
    \/ \E r \in RootHandles : TDtor(r)
    \/ TCollect

SpecPT == TCInit /\ [][PTNext]_vars

-----------------------------------------------------------------------------
(***************************************************************************)
(* TC: New<T> as a sequence of steps of one thread (gc.h 213-265), so that *)
(* a payload constructor can call New<U> itself.  frames holds the         *)
(* activations of New that have not returned, the innermost last; each     *)
(* records the header it allocated (new_obj), the value of `current` it    *)
(* saved at entry (parent), its result handle (r), whether the Ptr members *)
(* of its payload have been constructed (built) and whether a New called   *)
(* from its constructor has ended (inner).                                 *)
(***************************************************************************)
TopFrame == frames[Len(frames)]
PopFrame == SubSeq(frames, 1, Len(frames) - 1)
FrameHandles == { frames[i].r : i \in 1 .. Len(frames) }
NoteInner(fs) ==
    IF fs = << >> THEN fs ELSE [fs EXCEPT ![Len(fs)].inner = TRUE]

\* A variant that leaves `current` null when New<T> ends.
RestoreCurrent_Null(f) == 0

\* current = parent;  at the end of New<T> and in its catch block.
RestoreCurrent(f) == f.parent

\* The Ptr members k .. EmbPerObj of the payload of n, each constructed by
\* gc_base_ptr(nullptr) while the thread's `current` is cur.
RECURSIVE ConstructUnder(_, _, _, _)
ConstructUnder(cur, n, k, st) ==
    IF k > EmbPerObj THEN st
    ELSE LET h == EmbHandle(n, k)
             t == Classify(h, cur)
         IN  ConstructUnder(cur, n, k + 1,
               [ type   |-> [st.type EXCEPT ![h] = t],
                 object |-> [st.object EXCEPT ![h] = 0],
                 next   |-> [st.next EXCEPT ![h] =
                               IF t = "GC_HEAP" THEN st.first[cur] ELSE 0],
                 first  |-> IF t = "GC_HEAP"
                            THEN [st.first EXCEPT ![cur] = h] ELSE st.first,
                 halive |-> [st.halive EXCEPT ![h] = TRUE] ])

\* New<T>() up to the call of the payload constructor: the result handle is
\* constructed under the caller's `current`, the header is registered, and
\* current = new_obj.object.  A constructor calls New before it constructs
\* its own Ptr members.
NEnter(r) ==
    /\ r \in RootHandles
    /\ ~ halive[r]
    /\ \E o \in Objs : ostate[o] = "none"
    /\ Len(frames) <= MaxNest
    /\ frames # << >> => ~ TopFrame.built
    /\ gc_counter - 1 >= 0
    /\ LET n == FreshObj
           t == Classify(r, current)
       IN  /\ type' = [type EXCEPT ![r] = t]
           /\ object' = [object EXCEPT ![r] = n]
           /\ next' = [next EXCEPT ![r] = 0]
           /\ halive' = [halive EXCEPT ![r] = TRUE]
           /\ first' = [first EXCEPT ![n] = 0]
           /\ mark' = [mark EXCEPT ![n] = FALSE]
           /\ root_ref_cnt' = [root_ref_cnt EXCEPT
                                 ![n] = IF t = "ROOT" THEN 1 ELSE 0]
           /\ ostate' = [ostate EXCEPT ![n] = "live"]
           /\ all_objects' = Append(all_objects, n)
           /\ gc_counter' = gc_counter - 1
           /\ frames' = Append(frames, [ new_obj |-> n, parent |-> current,
                                         r |-> r, built |-> FALSE,
                                         inner |-> FALSE ])
           /\ current' = n
    /\ last_op' = "mutate"
    /\ UNCHANGED << dtor_calls, free_calls, last_garbage, cycles_in >>
    /\ UNCHANGED << thrVars, rcOnly, nwRest >>

\* The payload constructor of the innermost New constructs its Ptr members.
NMembers ==
    /\ frames # << >>
    /\ ~ TopFrame.built
    /\ LET n  == TopFrame.new_obj
           st == ConstructUnder(current, n, 1,
                   [ type |-> type, object |-> object, next |-> next,
                     first |-> first, halive |-> halive ])
       IN  /\ type' = st.type
           /\ object' = st.object
           /\ next' = st.next
           /\ first' = st.first
           /\ halive' = st.halive
    /\ frames' = [frames EXCEPT ![Len(frames)].built = TRUE]
    /\ last_op' = "mutate"
    /\ UNCHANGED << all_objects, gc_counter, root_ref_cnt, mark, ostate,
                    dtor_calls, free_calls, last_garbage, cycles_in, current >>
    /\ UNCHANGED << thrVars, rcOnly, nwRest >>

\* The payload constructor has returned: current = parent; return new_obj.
NReturn ==
    /\ frames # << >>
    /\ TopFrame.built
    /\ current' = RestoreCurrent(TopFrame)
    /\ frames' = NoteInner(PopFrame)
    /\ last_op' = "new_return"
    /\ UNCHANGED << all_objects, gc_counter, root_ref_cnt, first, mark, ostate,
                    dtor_calls, free_calls, type, next, object, halive,
                    last_garbage, cycles_in >>
    /\ UNCHANGED << thrVars, rcOnly, nwRest >>

\* The payload constructor throws: the members it has constructed are
\* destroyed, and the catch block takes back the root reference of a ROOT
\* result handle, nulls the handle, restores current and rethrows; the
\* result handle is destroyed by the unwinding.
NThrow ==
    /\ frames # << >>
    /\ LET n == TopFrame.new_obj
           r == TopFrame.r
       IN  /\ root_ref_cnt' = IF type[r] = "ROOT"
                              THEN dec_root(root_ref_cnt, n)
                              ELSE root_ref_cnt
           /\ object' = [object EXCEPT ![r] = 0]
           /\ halive' = [h \in Handles |->
                           IF h = r \/ h \in EmbHandles(n) THEN FALSE
                           ELSE halive[h]]
           /\ ostate' = [ostate EXCEPT ![n] = IF @ = "live" THEN "raw" ELSE @]
    /\ current' = RestoreCurrent(TopFrame)
    /\ frames' = NoteInner(PopFrame)
    /\ last_op' = "throw"
    /\ UNCHANGED << all_objects, gc_counter, first, mark, dtor_calls,
                    free_calls, type, next, last_garbage, cycles_in >>
    /\ UNCHANGED << thrVars, rcOnly, nwRest >>

\* A handle on the stack that is not the result handle of a New in progress
\* goes out of scope.
NScopeExit(r) ==
    /\ r \notin FrameHandles
    /\ TDtor(r)

NWNext ==
    \/ \E r \in RootHandles : NEnter(r)
    \/ NMembers
    \/ NReturn
    \/ NThrow
    \/ \E r \in RootHandles : NScopeExit(r)
    \/ frames = << >> /\ TCollect

SpecNW == TCInit /\ [][NWNext]_vars

-----------------------------------------------------------------------------
(***************************************************************************)
(* TC: New<T[]>(size) as a sequence of steps of one thread                 *)
(* (gc.h 273-327): the header is registered, the elements are constructed  *)
(* from begin to end, and when construct_at throws the catch block calls   *)
(* std::destroy(begin, constructed_end).  Elements are numbered from 0.    *)
(***************************************************************************)
ArraySizes == 1 .. MaxArrayLen

\* New<T[]>(size) up to the loop that constructs the elements.
ANew(r, size) ==
    /\ r \in RootHandles
    /\ ~ halive[r]
    /\ arr.pc \in { "idle", "returned", "thrown" }
    /\ frames = << >>
    /\ \E o \in Objs : ostate[o] = "none"
    /\ gc_counter - 1 >= 0
    /\ LET n == FreshObj
           t == Classify(r, current)
       IN  /\ type' = [type EXCEPT ![r] = t]
           /\ object' = [object EXCEPT ![r] = n]
           /\ next' = [next EXCEPT ![r] = 0]
           /\ halive' = [halive EXCEPT ![r] = TRUE]
           /\ first' = [first EXCEPT ![n] = 0]
           /\ mark' = [mark EXCEPT ![n] = FALSE]
           /\ root_ref_cnt' = [root_ref_cnt EXCEPT
                                 ![n] = IF t = "ROOT" THEN 1 ELSE 0]
           /\ ostate' = [ostate EXCEPT ![n] = "live"]
           /\ all_objects' = Append(all_objects, n)
           /\ gc_counter' = gc_counter - 1
           /\ arr' = [ pc |-> "ctor", obj |-> n, r |-> r, size |-> size,
                       parent |-> current, constructed_end |-> 0, it |-> 0,
                       state |-> [i \in 1 .. size |-> "raw"],
                       calls |-> [i \in 1 .. size |-> 0],
                       log |-> << >> ]
           /\ current' = n
    /\ last_op' = "mutate"
    /\ UNCHANGED << dtor_calls, free_calls, last_garbage, cycles_in >>
    /\ UNCHANGED << thrVars, rcOnly, arRest >>

\* std::construct_at(i) returns;  ++i, ++constructed_end.
AConstruct ==
    /\ arr.pc = "ctor"
    /\ arr.constructed_end < arr.size
    /\ arr' = [arr EXCEPT !.state[arr.constructed_end + 1] = "built",
                          !.constructed_end = @ + 1]
    /\ UNCHANGED << tcOnly, thrVars, rcOnly, arRest, current >>

\* std::construct_at(i) throws: the catch block is entered, and std::destroy
\* starts at begin.
AElementThrows ==
    /\ arr.pc = "ctor"
    /\ arr.constructed_end < arr.size
    /\ arr' = [arr EXCEPT !.pc = "catch", !.it = 0]
    /\ UNCHANGED << tcOnly, thrVars, rcOnly, arRest, current >>

\* One iteration of std::destroy(begin, constructed_end):
\* for (; first != last; ++first) std::destroy_at(addressof(*first)).
ADestroy ==
    /\ arr.pc = "catch"
    /\ arr.it < arr.constructed_end
    /\ arr' = [arr EXCEPT !.state[arr.it + 1] = "destroyed",
                          !.calls[arr.it + 1] = @ + 1,
                          !.log = Append(@, arr.it),
                          !.it = @ + 1]
    /\ UNCHANGED << tcOnly, thrVars, rcOnly, arRest, current >>

\* The rest of the catch block: the root reference of a ROOT New object is
\* taken back, object and ptr are nulled, current = parent, throw; the New
\* object is destroyed by the unwinding.
ARethrow ==
    /\ arr.pc = "catch"
    /\ arr.it = arr.constructed_end
    /\ root_ref_cnt' = IF type[arr.r] = "ROOT"
                       THEN dec_root(root_ref_cnt, arr.obj)
                       ELSE root_ref_cnt
    /\ object' = [object EXCEPT ![arr.r] = 0]
    /\ halive' = [halive EXCEPT ![arr.r] = FALSE]
    /\ ostate' = [ostate EXCEPT ![arr.obj] = "raw"]
    /\ current' = arr.parent
    /\ arr' = [arr EXCEPT !.pc = "thrown"]
    /\ last_op' = "throw"
    /\ UNCHANGED << all_objects, gc_counter, first, mark, dtor_calls,
                    free_calls, type, next, last_garbage, cycles_in >>
    /\ UNCHANGED << thrVars, rcOnly, arRest >>

\* Every element has been constructed: current = parent, and New returns.
AReturn ==
    /\ arr.pc = "ctor"
    /\ arr.constructed_end = arr.size
    /\ current' = arr.parent
    /\ arr' = [arr EXCEPT !.pc = "returned"]
    /\ UNCHANGED << tcOnly, thrVars, rcOnly, arRest >>

\* A handle on the stack that is not the New object of the array under
\* construction goes out of scope.
AScopeExit(r) ==
    /\ arr.pc \in { "ctor", "catch" } => r # arr.r
    /\ TDtor(r)

ARNext ==
    \/ \E r \in RootHandles, size \in ArraySizes : ANew(r, size)
    \/ AConstruct
    \/ AElementThrows
    \/ ADestroy
    \/ ARethrow
    \/ AReturn
    \/ \E r \in RootHandles : AScopeExit(r)

SpecAR == TCInit /\ [][ARNext]_vars

-----------------------------------------------------------------------------
(***************************************************************************)
(* TC: a payload constructor that throws.  New<T> and New<T[]> have        *)
(* registered the header when the constructor runs; the catch block takes  *)
(* the root reference back, clears the handle, restores `current` and      *)
(* rethrows.  The unwinding destroys the members (the array prefix) that   *)
(* were built, and then the gc_base_ptr base of the New object itself.     *)
(***************************************************************************)
\* auto r = New<T>() whose T::T() throws, after all the members were built
\* (built) or before the first one was.  The header stays in all_objects
\* with an unconstructed payload.
TNewThrows(r, built) ==
    /\ ~ halive[r]
    /\ \E o \in Objs : ostate[o] = "none"
    /\ LET n    == FreshObj
           cnt  == gc_counter - 1
           s    == IF cnt < 0 THEN Swept(CollectLocked(cnt)) ELSE Unswept(cnt)
           t    == Classify(r, 0)
           st0  == [ type   |-> [type EXCEPT ![r] = t],
                     object |-> [object EXCEPT ![r] = n],
                     next   |-> [next EXCEPT ![r] = 0],
                     first  |-> [first EXCEPT ![n] = 0],
                     halive |-> [s.halive EXCEPT ![r] = TRUE] ]
           st   == IF built THEN ConstructMembers(n, 1, st0) ELSE st0
       IN  /\ all_objects' = Append(s.all_objects, n)
           /\ gc_counter' = s.gc_counter
           /\ mark' = [s.mark EXCEPT ![n] = FALSE]
           /\ root_ref_cnt' = [s.root_ref_cnt EXCEPT ![n] = 0]
           /\ ostate' = [s.ostate EXCEPT ![n] = "raw"]
           /\ dtor_calls' = s.dtor_calls
           /\ free_calls' = s.free_calls
           /\ type' = st.type
           /\ object' = [st.object EXCEPT ![r] = 0]
           /\ next' = st.next
           /\ first' = st.first
           /\ halive' = [h \in Handles |->
                           IF h = r \/ h \in EmbHandles(n) THEN FALSE
                           ELSE st.halive[h]]
           /\ last_garbage' = s.garbage
           /\ cycles_in' = s.cycles_in
    /\ last_op' = "throw"
    /\ UNCHANGED << thrVars, rcVars >>

\* The garbage of the cycle that would run now holds a header whose payload
\* was never constructed.
RawGarbage ==
    \E o \in SeqToSet(CollectLocked(gc_counter).garbage) : ostate[o] = "raw"

\* gc_collect() with no other thread running, after a constructor may have
\* thrown.  The destructor thunk of a header with an unconstructed payload
\* runs ~T() on storage that holds no T: the ~gc_base_ptr of a member reads
\* type and object from it, and does nothing (w = 0) or takes a root
\* reference from whatever object w it finds there.
TXCollect(w) ==
    /\ w # 0 => RawGarbage /\ ostate[w] \in { "raw", "live" }
    /\ LET s == Swept(CollectLocked(gc_counter)) IN
       /\ all_objects' = s.all_objects
       /\ mark' = s.mark
       /\ gc_counter' = s.gc_counter
       /\ root_ref_cnt' = IF w = 0 THEN s.root_ref_cnt
                          ELSE dec_root(s.root_ref_cnt, w)
       /\ halive' = s.halive
       /\ ostate' = s.ostate
       /\ dtor_calls' = s.dtor_calls
       /\ free_calls' = s.free_calls
       /\ last_garbage' = s.garbage
       /\ cycles_in' = s.cycles_in
    /\ last_op' = "collect"
    /\ UNCHANGED << thrVars, rcVars >>
    /\ UNCHANGED << first, type, next, object >>

TCXNext ==
    \/ \E r \in RootsOf(1) : TNew(r)
    \/ \E r \in RootsOf(1), built \in BOOLEAN : TNewThrows(r, built)
    \/ \E r \in RootsOf(1), s \in Handles : TCopyCtor(r, s)
    \/ \E d \in Handles : TReset(d)
    \/ \E d \in Handles, s \in Handles : TCopyAssign(d, s)
    \/ \E r \in RootsOf(1) : TDtor(r)
    \/ \E w \in { 0 } \cup Objs : TXCollect(w)

SpecTCX == TCInit /\ [][TCXNext]_vars

-----------------------------------------------------------------------------
(***************************************************************************)
(* TC: the allocation countdown.  gc_counter is a global of namespace GC   *)
(* that gc.h declares: the program can store to it, and so bring the       *)
(* countdown near zero without a thousand allocations.                     *)
(***************************************************************************)
\* GC::gc_counter.store(v)
TStoreCounter(v) ==
    /\ gc_counter' = v
    /\ last_op' = "mutate"
    /\ UNCHANGED << all_objects, root_ref_cnt, first, mark, ostate,
                    dtor_calls, free_calls, type, next, object, halive,
                    last_garbage, cycles_in >>
    /\ UNCHANGED << thrVars, rcVars >>

TCPNext ==
    \/ \E r \in RootsOf(1) : TNew(r)
    \/ \E d \in Handles : TReset(d)
    \/ \E d \in Handles, s \in Handles : TCopyAssign(d, s)
    \/ \E r \in RootsOf(1) : TDtor(r)
    \/ TCollect
    \/ \E v \in 0 .. MaxCountdown : TStoreCounter(v)

SpecTCP == TCInit /\ [][TCPNext]_vars

-----------------------------------------------------------------------------
(***************************************************************************)
(* TC: every handle operation of one thread, the New whose constructor     *)
(* throws among them.  The program calls gc_collect() only while no header *)
(* of a failed construction is registered: a cycle that finds one runs the *)
(* destructor thunk on storage that holds no object (TXCollect).           *)
(***************************************************************************)
TCollectClean ==
    /\ ~ RawGarbage
    /\ TCollect

TCHNext ==
    \/ \E r \in RootsOf(1) : TNew(r)
    \/ \E r \in RootsOf(1), built \in BOOLEAN : TNewThrows(r, built)
    \/ \E r \in RootsOf(1) : TDefault(r)
    \/ \E r \in RootsOf(1), s \in Handles : TCopyCtor(r, s)
    \/ \E r \in RootsOf(1), s \in Handles : TMoveCtor(r, s)
    \/ \E d \in Handles : TNullAssign(d)
    \/ \E d \in Handles : TReset(d)
    \/ \E d \in Handles, s \in Handles : TCopyAssign(d, s)
    \/ \E d \in Handles, s \in Handles : TMoveAssign(d, s)
    \/ \E r \in RootsOf(1) : TDtor(r)
    \/ TCollectClean

SpecTCH == TCInit /\ [][TCHNext]_vars

-----------------------------------------------------------------------------
(***************************************************************************)
(* TC: several threads.  Every access to shared memory is a step of its    *)
(* own; a region run under gc_mutex is one step, since nothing else that   *)
(* takes the mutex can run inside it, so the mutex is free between steps.  *)
(* A ROOT handle lives on the stack of its thread and only that thread     *)
(* touches it; embedded handles and root counts are shared.  The moves and *)
(* the default constructor are left to the single-threaded specification:  *)
(* between ROOT handles they touch no shared memory, and from a GC_HEAP    *)
(* source they are the copy.                                               *)
(***************************************************************************)
ProgObjsOf(t) ==
    Closure({ object[r] : r \in { x \in RootsOf(t) : halive[x] } } \ { 0 })

\* The handles thread t can name: its own, and those embedded in an object it
\* reaches whose payload has not been destroyed.
UsableBy(t, h) ==
    /\ halive[h]
    /\ \/ h \in RootsOf(t)
       \/ \E o \in ProgObjsOf(t) :
             Inside(h, o) /\ ostate[o] \in { "live", "detached" }

Idle(t) == pc[t] = "idle"

Goto(t, l) == pc' = [pc EXCEPT ![t] = l]

Top(t) == stack[t][Len(stack[t])]

\* A gc_collect() activation that has not got its garbage yet.  fd, fo and
\* did belong to the destructor the activation is running: the handle and
\* the object of the New<T> the destructor executes, and what the destructor
\* has done so far.
Frame(ret) ==
    [ garbage |-> << >>, idx |-> 0, ret |-> ret,
      fd |-> 0, fo |-> 0, did |-> { } ]

Call(t, ret) == stack' = [stack EXCEPT ![t] = Append(@, Frame(ret))]

\* New<T>, gc.h 215-226: ::operator new, the base-class gc_base_ptr(), and
\* the countdown decrement.
CNewBegin(t, r) ==
    /\ Idle(t)
    /\ ~ gc_mutex
    /\ r \in RootsOf(t) /\ ~ halive[r]
    /\ \E o \in Objs : ostate[o] = "none"
    /\ Cardinality({ o \in Objs : ostate[o] \notin { "none", "freed" } })
          < MaxObjsConc
    /\ LET n == FreshObj IN
       /\ ostate' = [ostate EXCEPT ![n] = "raw"]
       /\ tl' = [tl EXCEPT ![t] = [ d |-> r, s |-> 0, o |-> n ]]
    /\ type' = [type EXCEPT ![r] = Classify(r, 0)]
    /\ object' = [object EXCEPT ![r] = 0]
    /\ next' = [next EXCEPT ![r] = 0]
    /\ halive' = [halive EXCEPT ![r] = TRUE]
    /\ gc_counter' = gc_counter - 1
    /\ Goto(t, "new_load")
    /\ UNCHANGED << all_objects, root_ref_cnt, first, mark, dtor_calls,
                    free_calls, last_op, last_garbage, cycles_in, stack >>
    /\ UNCHANGED << gc_mutex, rcVars >>

\* gc.h 229-231: if (gc_counter.load() < 0) gc_collect();
CNewLoad(t) ==
    /\ pc[t] = "new_load"
    /\ IF gc_counter < 0
       THEN Call(t, "new_reg") /\ Goto(t, "gc_lock")
       ELSE UNCHANGED stack /\ Goto(t, "new_reg")
    /\ UNCHANGED << tcVars, tl >>
    /\ UNCHANGED << gc_mutex, rcVars >>

\* A registration that builds the header and forgets the push_back.
CNewRegister_Unlisted(t) ==
    /\ pc[t] = "new_reg"
    /\ ~ gc_mutex
    /\ LET n == tl[t].o
           r == tl[t].d
       IN  /\ object' = [object EXCEPT ![r] = n]
           /\ root_ref_cnt' = [root_ref_cnt EXCEPT
                                 ![n] = IF type[r] = "ROOT" THEN 1 ELSE 0]
           /\ first' = [first EXCEPT ![n] = 0]
           /\ mark' = [mark EXCEPT ![n] = FALSE]
           /\ ostate' = [ostate EXCEPT ![n] = "live"]
    /\ Goto(t, "new_ctor")
    /\ UNCHANGED << all_objects, gc_counter, dtor_calls, free_calls, type,
                    next, halive, last_op, last_garbage, cycles_in, tl,
                    stack >>
    /\ UNCHANGED << gc_mutex, rcVars >>

\* gc.h 233-246: under gc_mutex, build the header and register it.
CNewRegister(t) ==
    /\ pc[t] = "new_reg"
    /\ ~ gc_mutex
    /\ LET n == tl[t].o
           r == tl[t].d
       IN  /\ object' = [object EXCEPT ![r] = n]
           /\ root_ref_cnt' = [root_ref_cnt EXCEPT
                                 ![n] = IF type[r] = "ROOT" THEN 1 ELSE 0]
           /\ first' = [first EXCEPT ![n] = 0]
           /\ mark' = [mark EXCEPT ![n] = FALSE]
           /\ all_objects' = Append(all_objects, n)
           /\ ostate' = [ostate EXCEPT ![n] = "live"]
    /\ Goto(t, "new_ctor")
    /\ UNCHANGED << gc_counter, dtor_calls, free_calls, type, next, halive,
                    last_op, last_garbage, cycles_in, tl, stack >>
    /\ UNCHANGED << gc_mutex, rcVars >>

\* gc.h 248-264: construct the payload with current = new_obj.
CNewConstruct(t) ==
    /\ pc[t] = "new_ctor"
    /\ LET st == ConstructMembers(tl[t].o, 1,
                   [ type |-> type, object |-> object, next |-> next,
                     first |-> first, halive |-> halive ])
       IN  /\ type' = st.type
           /\ object' = st.object
           /\ next' = st.next
           /\ first' = st.first
           /\ halive' = st.halive
    /\ tl' = [tl EXCEPT ![t] = NoLocals]
    /\ Goto(t, "idle")
    /\ UNCHANGED << all_objects, gc_counter, root_ref_cnt, mark, ostate,
                    dtor_calls, free_calls, last_op, last_garbage, cycles_in,
                    stack >>
    /\ UNCHANGED << gc_mutex, rcVars >>

\* What follows the store of o into a ROOT handle: if (o) inc_root(o).
ThenInc(t, o) ==
    IF o # 0
    THEN /\ tl' = [tl EXCEPT ![t] = [ d |-> 0, s |-> 0, o |-> o ]]
         /\ Goto(t, "inc")
    ELSE UNCHANGED << tl, pc >>

\* gc_base_ptr(gc_object* o) for a ROOT handle, gc.cpp 123-128: the store of
\* object comes first, inc_root(o) follows.
CCopyCtor(t, r, s) ==
    /\ Idle(t)
    /\ r \in RootsOf(t) /\ ~ halive[r]
    /\ UsableBy(t, s)
    /\ type' = [type EXCEPT ![r] = Classify(r, 0)]
    /\ object' = [object EXCEPT ![r] = object[s]]
    /\ next' = [next EXCEPT ![r] = 0]
    /\ halive' = [halive EXCEPT ![r] = TRUE]
    /\ ThenInc(t, object[s])
    /\ UNCHANGED << all_objects, gc_counter, root_ref_cnt, first, mark, ostate,
                    dtor_calls, free_calls, last_op, last_garbage, cycles_in,
                    stack >>
    /\ UNCHANGED << gc_mutex, rcVars >>

\* inc_root, gc.cpp 73-82: the CAS loop adds one to a count that is not zero.
CInc(t) ==
    /\ pc[t] = "inc"
    /\ IF root_ref_cnt[tl[t].o] # 0
       THEN /\ root_ref_cnt' = inc_root(root_ref_cnt, tl[t].o)
            /\ tl' = [tl EXCEPT ![t] = NoLocals]
            /\ Goto(t, "idle")
       ELSE /\ Goto(t, "inc_lock")
            /\ UNCHANGED << root_ref_cnt, tl >>
    /\ UNCHANGED << all_objects, gc_counter, first, mark, ostate, dtor_calls,
                    free_calls, type, next, object, halive, last_op,
                    last_garbage, cycles_in, stack >>
    /\ UNCHANGED << gc_mutex, rcVars >>

\* (mutant) the fetch_add after a zero was read, with no scoped_lock.
CIncLocked_NoLock(t) ==
    /\ pc[t] = "inc_lock"
    /\ root_ref_cnt' = inc_root(root_ref_cnt, tl[t].o)
    /\ tl' = [tl EXCEPT ![t] = NoLocals]
    /\ Goto(t, "idle")
    /\ UNCHANGED << all_objects, gc_counter, first, mark, ostate, dtor_calls,
                    free_calls, type, next, object, halive, last_op,
                    last_garbage, cycles_in, stack >>
    /\ UNCHANGED << gc_mutex, rcVars >>

\* inc_root, gc.cpp 83-85: the count read was zero; add one under gc_mutex.
CIncLocked(t) ==
    /\ pc[t] = "inc_lock"
    /\ ~ gc_mutex
    /\ root_ref_cnt' = inc_root(root_ref_cnt, tl[t].o)
    /\ tl' = [tl EXCEPT ![t] = NoLocals]
    /\ Goto(t, "idle")
    /\ UNCHANGED << all_objects, gc_counter, first, mark, ostate, dtor_calls,
                    free_calls, type, next, object, halive, last_op,
                    last_garbage, cycles_in, stack >>
    /\ UNCHANGED << gc_mutex, rcVars >>

\* d = nullptr and d.reset(), gc.cpp 178-187 and 252-263.
CNullAssign(t, d) ==
    /\ Idle(t)
    /\ UsableBy(t, d)
    /\ object' = [object EXCEPT ![d] = 0]
    /\ root_ref_cnt' = IF type[d] = "ROOT" /\ object[d] # 0
                       THEN dec_root(root_ref_cnt, object[d])
                       ELSE root_ref_cnt
    /\ UNCHANGED << all_objects, gc_counter, first, mark, ostate, dtor_calls,
                    free_calls, type, next, halive, last_op, last_garbage,
                    cycles_in, thrVars >>
    /\ UNCHANGED << gc_mutex, rcVars >>

\* Publishing a non-null referent in a GC_HEAP handle waits for gc_mutex.
ThenPublish(t, d, o) ==
    /\ tl' = [tl EXCEPT ![t] = [ d |-> d, s |-> 0, o |-> o ]]
    /\ Goto(t, "heap_pub")

\* d = s, gc.cpp 189-213.  For a ROOT d: dec_root(o1), the store, and then
\* inc_root(o2).
CCopyAssign(t, d, s) ==
    /\ Idle(t)
    /\ UsableBy(t, d) /\ UsableBy(t, s)
    /\ LET o1 == object[d]
           o2 == object[s]
       IN  IF o1 = o2
           THEN UNCHANGED << object, root_ref_cnt, tl, pc >>
           ELSE IF type[d] = "GC_HEAP"
           THEN IF o2 # 0
                THEN ThenPublish(t, d, o2) /\ UNCHANGED << object, root_ref_cnt >>
                ELSE /\ object' = [object EXCEPT ![d] = 0]
                     /\ UNCHANGED << root_ref_cnt, tl, pc >>
           ELSE /\ root_ref_cnt' = IF o1 # 0 THEN dec_root(root_ref_cnt, o1)
                                   ELSE root_ref_cnt
                /\ object' = [object EXCEPT ![d] = o2]
                /\ ThenInc(t, o2)
    /\ UNCHANGED << all_objects, gc_counter, first, mark, ostate, dtor_calls,
                    free_calls, type, next, halive, last_op, last_garbage,
                    cycles_in, stack >>
    /\ UNCHANGED << gc_mutex, rcVars >>

\* gc.cpp 197-198 and 223-224: the store under gc_mutex.
CHeapPublish(t) ==
    /\ pc[t] = "heap_pub"
    /\ ~ gc_mutex
    /\ object' = [object EXCEPT ![tl[t].d] = tl[t].o]
    /\ tl' = [tl EXCEPT ![t] = NoLocals]
    /\ Goto(t, "idle")
    /\ UNCHANGED << all_objects, gc_counter, root_ref_cnt, first, mark, ostate,
                    dtor_calls, free_calls, type, next, halive, last_op,
                    last_garbage, cycles_in, stack >>
    /\ UNCHANGED << gc_mutex, rcVars >>

\* ~gc_base_ptr of a handle on the stack, gc.cpp 265-273.
CDtor(t, r) ==
    /\ Idle(t)
    /\ r \in RootsOf(t) /\ halive[r]
    /\ root_ref_cnt' = DtorHandle(root_ref_cnt, r)
    /\ halive' = [halive EXCEPT ![r] = FALSE]
    /\ object' = [object EXCEPT ![r] = 0]
    /\ UNCHANGED << all_objects, gc_counter, first, mark, ostate, dtor_calls,
                    free_calls, type, next, last_op, last_garbage, cycles_in,
                    thrVars >>
    /\ UNCHANGED << gc_mutex, rcVars >>

\* A thread calls gc_collect().
CCollectBegin(t) ==
    /\ Idle(t)
    /\ Call(t, "idle")
    /\ Goto(t, "gc_lock")
    /\ UNCHANGED << tcVars, tl >>
    /\ UNCHANGED << gc_mutex, rcVars >>

\* gc_collect, gc.cpp 284-347: phases 1 to 3 under gc_mutex.  The garbage
\* leaves the registry and goes to the local vector of this activation.
CCollectLocked(t) ==
    /\ pc[t] = "gc_lock"
    /\ ~ gc_mutex
    /\ LET c == CollectLocked(gc_counter)
           G == SeqToSet(c.garbage)
       IN  IF all_objects = << >>
           THEN /\ Goto(t, Top(t).ret)
                /\ stack' = [stack EXCEPT ![t] = SubSeq(@, 1, Len(@) - 1)]
                /\ UNCHANGED << all_objects, mark, gc_counter, ostate,
                                cycles_in, gc_mutex >>
           ELSE /\ all_objects' = c.live
                /\ mark' = c.mark
                /\ gc_counter' = c.counter
                /\ ostate' = [o \in Objs |->
                                IF o \in G THEN "detached" ELSE ostate[o]]
                /\ cycles_in' = [o \in Objs |->
                                   cycles_in[o] + (IF o \in G THEN 1 ELSE 0)]
                /\ stack' = [stack EXCEPT ![t][Len(stack[t])] =
                               [ @ EXCEPT !.garbage = c.garbage, !.idx = 1 ]]
                /\ gc_mutex' = c.locked
                /\ Goto(t, "gc_fin")
    /\ UNCHANGED << root_ref_cnt, first, dtor_calls, free_calls, type, next,
                    object, halive, last_op, last_garbage, tl >>
    /\ UNCHANGED rcVars

\* Phase 4, gc.cpp 352-355: o->~gc_object() runs the destructor thunk of the
\* next garbage object, outside gc_mutex.
CFinalise(t) ==
    /\ pc[t] = "gc_fin"
    /\ Top(t).idx <= Len(Top(t).garbage)
    /\ LET o == Top(t).garbage[Top(t).idx] IN
       /\ dtor_calls' = [dtor_calls EXCEPT ![o] = @ + 1]
       /\ ostate' = [ostate EXCEPT ![o] = "destroyed"]
       /\ root_ref_cnt' = DtorHandles(root_ref_cnt, EmbHandles(o))
       /\ halive' = [h \in Handles |->
                       IF h \in EmbHandles(o) THEN FALSE ELSE halive[h]]
    /\ stack' = [stack EXCEPT ![t][Len(stack[t])] =
                    [ @ EXCEPT !.idx = @ + 1,
                               !.fd = 0, !.fo = 0, !.did = { } ]]
    /\ UNCHANGED << all_objects, gc_counter, first, mark, free_calls, type,
                    next, object, last_op, last_garbage, cycles_in, pc, tl >>
    /\ UNCHANGED << gc_mutex, rcVars >>

\* The destructor of the garbage object being finalised calls gc_collect()
\* itself (directly, or through a New<T> whose countdown has expired).
CFinaliserCollects(t) ==
    /\ pc[t] = "gc_fin"
    /\ Top(t).idx <= Len(Top(t).garbage)
    /\ Len(stack[t]) <= MaxNest
    /\ Call(t, "gc_fin")
    /\ Goto(t, "gc_lock")
    /\ UNCHANGED << tcVars, tl >>
    /\ UNCHANGED << gc_mutex, rcVars >>

\* Phase 5, gc.cpp 360-364: ::operator delete of every garbage object, under
\* gc_mutex; gc_collect returns.
CFree(t) ==
    /\ pc[t] = "gc_fin"
    /\ ~ gc_mutex
    /\ Top(t).idx > Len(Top(t).garbage)
    /\ LET G == SeqToSet(Top(t).garbage) IN
       /\ ostate' = [o \in Objs |-> IF o \in G THEN "freed" ELSE ostate[o]]
       /\ free_calls' = [o \in Objs |->
                           free_calls[o] + (IF o \in G THEN 1 ELSE 0)]
    /\ Goto(t, Top(t).ret)
    /\ stack' = [stack EXCEPT ![t] = SubSeq(@, 1, Len(@) - 1)]
    /\ UNCHANGED << all_objects, gc_counter, root_ref_cnt, first, mark,
                    dtor_calls, type, next, object, halive, last_op,
                    last_garbage, cycles_in, tl >>
    /\ UNCHANGED << gc_mutex, rcVars >>

TCCNext ==
    \E t \in Threads :
       \/ \E r \in Handles : CNewBegin(t, r)
       \/ CNewLoad(t)
       \/ CNewRegister(t)
       \/ CNewConstruct(t)
       \/ \E r \in Handles, s \in Handles : CCopyCtor(t, r, s)
       \/ CInc(t)
       \/ CIncLocked(t)
       \/ \E d \in Handles : CNullAssign(t, d)
       \/ \E d \in Handles, s \in Handles : CCopyAssign(t, d, s)
       \/ CHeapPublish(t)
       \/ \E r \in Handles : CDtor(t, r)
       \/ CCollectBegin(t)
       \/ CCollectLocked(t)
       \/ CFinalise(t)
       \/ CFinaliserCollects(t)
       \/ CFree(t)

SpecTCC == TCInit /\ [][TCCNext]_vars

-----------------------------------------------------------------------------
(***************************************************************************)
(* TC: several threads, with the locked block of gc_collect() in two       *)
(* steps: the unique_lock is taken, and phases 1 to 3 run and the lock is  *)
(* released.  Between the two steps the collecting thread holds gc_mutex   *)
(* and the other threads take every step that does not need it.            *)
(***************************************************************************)
\* gc.cpp 285: std::unique_lock lock{ gc_mutex };
CCollectLock(t) ==
    /\ pc[t] = "gc_lock"
    /\ ~ gc_mutex
    /\ gc_mutex' = TRUE
    /\ Goto(t, "gc_mark")
    /\ UNCHANGED << tcVars, tl, stack, rcVars >>

\* gc.cpp 287-347 with gc_mutex held: the early return, or phases 1 to 3;
\* the lock is released at the end of the block.
CCollectHeld(t) ==
    /\ pc[t] = "gc_mark"
    /\ gc_mutex
    /\ LET c == CollectLocked(gc_counter)
           G == SeqToSet(c.garbage)
       IN  IF all_objects = << >>
           THEN /\ Goto(t, Top(t).ret)
                /\ stack' = [stack EXCEPT ![t] = SubSeq(@, 1, Len(@) - 1)]
                /\ gc_mutex' = FALSE
                /\ UNCHANGED << all_objects, mark, gc_counter, ostate,
                                cycles_in >>
           ELSE /\ all_objects' = c.live
                /\ mark' = c.mark
                /\ gc_counter' = c.counter
                /\ ostate' = [o \in Objs |->
                                IF o \in G THEN "detached" ELSE ostate[o]]
                /\ cycles_in' = [o \in Objs |->
                                   cycles_in[o] + (IF o \in G THEN 1 ELSE 0)]
                /\ stack' = [stack EXCEPT ![t][Len(stack[t])] =
                               [ @ EXCEPT !.garbage = c.garbage, !.idx = 1 ]]
                /\ gc_mutex' = c.locked
                /\ Goto(t, "gc_fin")
    /\ UNCHANGED << root_ref_cnt, first, dtor_calls, free_calls, type, next,
                    object, halive, last_op, last_garbage, tl >>
    /\ UNCHANGED rcVars

TCLNext ==
    \E t \in Threads :
       \/ \E r \in Handles : CNewBegin(t, r)
       \/ CNewLoad(t)
       \/ CNewRegister(t)
       \/ CNewConstruct(t)
       \/ \E r \in Handles, s \in Handles : CCopyCtor(t, r, s)
       \/ CInc(t)
       \/ CIncLocked(t)
       \/ \E d \in Handles : CNullAssign(t, d)
       \/ \E d \in Handles, s \in Handles : CCopyAssign(t, d, s)
       \/ CHeapPublish(t)
       \/ \E r \in Handles : CDtor(t, r)
       \/ CCollectBegin(t)
       \/ CCollectLock(t)
       \/ CCollectHeld(t)
       \/ CFinalise(t)
       \/ CFree(t)

SpecTCL == TCInit /\ [][TCLNext]_vars

-----------------------------------------------------------------------------
(***************************************************************************)
(* TC: destructors that allocate.  The destructor of a garbage object,     *)
(* called in phase 4, may execute auto r = New<T>() once, may drop r       *)
(* again, and may call gc_collect() once.  r is a handle of the thread     *)
(* that is not inside any object, so it is a ROOT handle.                  *)
(***************************************************************************)
InDtor(t) == pc[t] = "gc_fin" /\ Top(t).idx <= Len(Top(t).garbage)

SetTop(t, f) == stack' = [stack EXCEPT ![t][Len(stack[t])] = f]

\* gc.h 215-226 in a destructor: ::operator new, gc_base_ptr(), and the
\* countdown decrement under gc_mutex.
CFinNewBegin(t, r) ==
    /\ InDtor(t)
    /\ "new" \notin Top(t).did
    /\ ~ gc_mutex
    /\ r \in RootsOf(t) /\ ~ halive[r]
    /\ \E o \in Objs : ostate[o] = "none"
    /\ Cardinality({ o \in Objs : ostate[o] \notin { "none", "freed" } })
          <= MaxObjsConc
    /\ LET n == FreshObj IN
       /\ ostate' = [ostate EXCEPT ![n] = "raw"]
       /\ SetTop(t, [ Top(t) EXCEPT !.fd = r, !.fo = n,
                                    !.did = @ \cup { "new" } ])
    /\ type' = [type EXCEPT ![r] = Classify(r, 0)]
    /\ object' = [object EXCEPT ![r] = 0]
    /\ next' = [next EXCEPT ![r] = 0]
    /\ halive' = [halive EXCEPT ![r] = TRUE]
    /\ gc_counter' = gc_counter - 1
    /\ Goto(t, "fin_load")
    /\ UNCHANGED << all_objects, root_ref_cnt, first, mark, dtor_calls,
                    free_calls, last_op, last_garbage, cycles_in, tl >>
    /\ UNCHANGED << gc_mutex, rcVars >>

\* gc.h 229-231: if (gc_counter.load() < 0) gc_collect();
CFinNewLoad(t) ==
    /\ pc[t] = "fin_load"
    /\ IF gc_counter < 0
       THEN Len(stack[t]) <= MaxNest /\ Call(t, "fin_reg") /\ Goto(t, "gc_lock")
       ELSE UNCHANGED stack /\ Goto(t, "fin_reg")
    /\ UNCHANGED << tcVars, tl >>
    /\ UNCHANGED << gc_mutex, rcVars >>

\* gc.h 233-246: under gc_mutex, build the header and register it.
CFinNewRegister(t) ==
    /\ pc[t] = "fin_reg"
    /\ ~ gc_mutex
    /\ LET n == Top(t).fo
           r == Top(t).fd
       IN  /\ object' = [object EXCEPT ![r] = n]
           /\ root_ref_cnt' = [root_ref_cnt EXCEPT
                                 ![n] = IF type[r] = "ROOT" THEN 1 ELSE 0]
           /\ first' = [first EXCEPT ![n] = 0]
           /\ mark' = [mark EXCEPT ![n] = FALSE]
           /\ all_objects' = Append(all_objects, n)
           /\ ostate' = [ostate EXCEPT ![n] = "live"]
    /\ Goto(t, "fin_ctor")
    /\ UNCHANGED << gc_counter, dtor_calls, free_calls, type, next, halive,
                    last_op, last_garbage, cycles_in, tl, stack >>
    /\ UNCHANGED << gc_mutex, rcVars >>

\* gc.h 248-264: construct the payload with current = new_obj; New<T>
\* returns into the destructor.
CFinNewConstruct(t) ==
    /\ pc[t] = "fin_ctor"
    /\ LET st == ConstructMembers(Top(t).fo, 1,
                   [ type |-> type, object |-> object, next |-> next,
                     first |-> first, halive |-> halive ])
       IN  /\ type' = st.type
           /\ object' = st.object
           /\ next' = st.next
           /\ first' = st.first
           /\ halive' = st.halive
    /\ Goto(t, "gc_fin")
    /\ UNCHANGED << all_objects, gc_counter, root_ref_cnt, mark, ostate,
                    dtor_calls, free_calls, last_op, last_garbage, cycles_in,
                    tl, stack >>
    /\ UNCHANGED << gc_mutex, rcVars >>

\* The handle r of the destructor goes out of scope, gc.cpp 265-273.
CFinDrop(t) ==
    /\ InDtor(t)
    /\ Top(t).fd # 0 /\ halive[Top(t).fd]
    /\ "drop" \notin Top(t).did
    /\ root_ref_cnt' = DtorHandle(root_ref_cnt, Top(t).fd)
    /\ halive' = [halive EXCEPT ![Top(t).fd] = FALSE]
    /\ object' = [object EXCEPT ![Top(t).fd] = 0]
    /\ SetTop(t, [ Top(t) EXCEPT !.did = @ \cup { "drop" } ])
    /\ UNCHANGED << all_objects, gc_counter, first, mark, ostate, dtor_calls,
                    free_calls, type, next, last_op, last_garbage, cycles_in,
                    pc, tl >>
    /\ UNCHANGED << gc_mutex, rcVars >>

\* The destructor calls gc_collect().
CFinCollect(t) ==
    /\ InDtor(t)
    /\ "collect" \notin Top(t).did
    /\ Len(stack[t]) <= MaxNest
    /\ stack' = [stack EXCEPT ![t] =
                   Append([ @ EXCEPT ![Len(@)].did = @ \cup { "collect" } ],
                          Frame("gc_fin"))]
    /\ Goto(t, "gc_lock")
    /\ UNCHANGED << tcVars, tl >>
    /\ UNCHANGED << gc_mutex, rcVars >>

\* The steps a thread takes inside gc_collect() and inside the mandatory
\* part of a New<T> in a destructor.
CollectStep(t) ==
    \/ CCollectLocked(t)
    \/ CFinalise(t)
    \/ CFree(t)
    \/ CFinNewLoad(t)
    \/ CFinNewRegister(t)
    \/ CFinNewConstruct(t)

TCFNext ==
    \E t \in Threads :
       \/ \E r \in Handles : CNewBegin(t, r)
       \/ CNewLoad(t)
       \/ CNewRegister(t)
       \/ CNewConstruct(t)
       \/ \E r \in Handles : CDtor(t, r)
       \/ CCollectBegin(t)
       \/ CollectStep(t)
       \/ \E r \in Handles : CFinNewBegin(t, r)
       \/ CFinDrop(t)
       \/ CFinCollect(t)

SpecTCF == TCInit /\ [][TCFNext]_vars

\* A thread that can take a step of gc_collect() eventually takes one.
FairTCF == SpecTCF /\ \A t \in Threads : WF_vars(CollectStep(t))

-----------------------------------------------------------------------------
(***************************************************************************)
(* TC: several threads, destructors that allocate, and payload             *)
(* constructors that throw.                                                *)
(***************************************************************************)
\* gc.h 254-262 and the unwinding, in a thread that has registered the
\* header: T::T() throws after the members were built (built) or before the
\* first one was; the catch block takes the root reference back and clears
\* the handle; the members and then the New object itself are destroyed.
\* (A header that a collection has taken in the meantime stays what the
\* collection made of it.)
CNewThrow(t, built) ==
    /\ pc[t] = "new_ctor"
    /\ LET n  == tl[t].o
           r  == tl[t].d
           s0 == [ type |-> type, object |-> object, next |-> next,
                   first |-> first, halive |-> halive ]
           st == IF built THEN ConstructMembers(n, 1, s0) ELSE s0
       IN  /\ type' = st.type
           /\ object' = [st.object EXCEPT ![r] = 0]
           /\ next' = st.next
           /\ first' = st.first
           /\ halive' = [h \in Handles |->
                           IF h = r \/ h \in EmbHandles(n) THEN FALSE
                           ELSE st.halive[h]]
           /\ root_ref_cnt' = IF type[r] = "ROOT"
                              THEN dec_root(root_ref_cnt, n)
                              ELSE root_ref_cnt
           /\ ostate' = [ostate EXCEPT
                           ![n] = IF @ = "live" THEN "raw" ELSE @]
    /\ tl' = [tl EXCEPT ![t] = NoLocals]
    /\ Goto(t, "idle")
    /\ UNCHANGED << all_objects, gc_counter, mark, dtor_calls, free_calls,
                    last_op, last_garbage, cycles_in, stack >>
    /\ UNCHANGED << gc_mutex, rcVars >>

\* The payload of o holds no T: its constructor threw.
Unbuilt(o) == \A h \in EmbHandles(o) : ~ halive[h]

\* Phase 4 on a header whose payload was never constructed: ~T() runs on
\* storage that holds no T, and the ~gc_base_ptr of a member takes a root
\* reference from whatever object w it finds there.  (That it finds none is
\* the step CFinalise.)
CFinaliseWild(t, w) ==
    /\ pc[t] = "gc_fin"
    /\ Top(t).idx <= Len(Top(t).garbage)
    /\ ostate[w] \in { "raw", "live", "detached" }
    /\ LET o == Top(t).garbage[Top(t).idx] IN
       /\ Unbuilt(o)
       /\ dtor_calls' = [dtor_calls EXCEPT ![o] = @ + 1]
       /\ ostate' = [ostate EXCEPT ![o] = "destroyed"]
       /\ root_ref_cnt' = dec_root(root_ref_cnt, w)
    /\ stack' = [stack EXCEPT ![t][Len(stack[t])] =
                    [ @ EXCEPT !.idx = @ + 1,
                               !.fd = 0, !.fo = 0, !.did = { } ]]
    /\ UNCHANGED << all_objects, gc_counter, first, mark, free_calls, type,
                    next, object, halive, last_op, last_garbage, cycles_in,
                    pc, tl >>
    /\ UNCHANGED << gc_mutex, rcVars >>

TCYNext ==
    \E t \in Threads :
       \/ \E r \in Handles : CNewBegin(t, r)
       \/ CNewLoad(t)
       \/ CNewRegister(t)
       \/ CNewConstruct(t)
       \/ \E built \in BOOLEAN : CNewThrow(t, built)
       \/ \E r \in Handles : CDtor(t, r)
       \/ CCollectBegin(t)
       \/ CollectStep(t)
       \/ \E w \in Objs : CFinaliseWild(t, w)
       \/ \E r \in Handles : CFinNewBegin(t, r)
       \/ CFinDrop(t)
       \/ CFinCollect(t)

SpecTCY == TCInit /\ [][TCYNext]_vars

-----------------------------------------------------------------------------
(***************************************************************************)
(* Runtime collector (Ptr.hpp), one thread.  GC::New is a sequence of      *)
(* steps: register_obj up to the start of a collection or to its return,   *)
(* one step for each object the sweep erases and destroys, the end of the  *)
(* collection, and the construction of the Ptr that New returns.  The      *)
(* operations of Ptr are whole calls.  The payload types are "plain",      *)
(* "huge" (larger than hard_limit) and "alloc", whose destructor calls     *)
(* GC::New<U>() for a plain U and drops the result, as long as the program *)
(* has allocated fewer than MaxHeaders objects.  A header id is used once. *)
(***************************************************************************)
Kinds == { "plain", "alloc", "huge" }

SizeOf(k) == IF k = "huge" THEN HugeSize ELSE SmallSize

FreshHdr == CHOOSE h \in Hdrs :
               /\ hdr[h].state = "none"
               /\ \A g \in Hdrs : hdr[g].state = "none" => h <= g

\* add_root(h): roots.insert(h)
add_root(R, h) == [R EXCEPT !.roots = @ \cup { h }]

\* remove_root(h): roots.erase(h); pending_full_gc = true;
remove_root(R, h) ==
    [R EXCEPT !.roots = @ \ { h }, !.pending_full_gc = TRUE]

\* Ptr::reset() of a Ptr whose header is h: remove_root, if h is not null.
ptr_reset(R, h) == IF h # 0 THEN remove_root(R, h) ELSE R

\* register_obj, lines 35-44: the insertion and the two pending flags.
Inserted(R, h, size) ==
    LET R1 == [R EXCEPT !.objects = @ \cup { h },
                        !.allocated = @ + size]
    IN  IF R1.allocated > hard_limit
        THEN [R1 EXCEPT !.pending_full_gc = TRUE]
        ELSE [R1 EXCEPT !.alloc_counter = @ + 1,
                        !.pending_incremental_gc =
                            @ \/ R1.alloc_counter + 1 >= alloc_trigger]

\* mark(): every object is unmarked, then every root is marked; trace is
\* empty for every type New makes.  A root that is not a registered object
\* is a header the sweep has destroyed: dfs reads and writes freed storage.
Mark(H, R) ==
    [h \in Hdrs |-> IF h \in R.objects
                    THEN [H[h] EXCEPT !.marked = h \in R.roots]
                    ELSE H[h]]

MarkTouchesFreed(R) == \E r \in R.roots : r # 0 /\ r \notin R.objects

\* GC::New<T>(args) for T of kind k, up to the return of register_obj or to
\* the start of a collection inside it.
RtNew(p, k) ==
    /\ rtpc.pc = "idle"
    /\ ~ rp[p].live
    /\ \E h \in Hdrs : hdr[h].state = "none"
    /\ LET h  == FreshHdr
           H1 == [hdr EXCEPT ![h] = [ NoHeader EXCEPT !.state = "live",
                                                      !.size = SizeOf(k),
                                                      !.kind = k ]]
           R1 == Inserted([rt EXCEPT !.mutex = TRUE], h, SizeOf(k))
       IN  IF ~ R1.gc_running
              /\ (R1.pending_full_gc \/ R1.pending_incremental_gc)
           THEN /\ rt' = [R1 EXCEPT !.gc_running = TRUE,
                                    !.uaf = @ \/ MarkTouchesFreed(R1)]
                /\ hdr' = Mark(H1, R1)
                /\ rtpc' = [ pc |-> "sweep", op |-> "New", p |-> p, h |-> h,
                             full |-> R1.pending_full_gc, freed |-> 0,
                             added |-> { } ]
           ELSE /\ rt' = [R1 EXCEPT !.mutex = FALSE]
                /\ hdr' = H1
                /\ rtpc' = [ pc |-> "registered", op |-> "New", p |-> p,
                             h |-> h, full |-> FALSE, freed |-> 0,
                             added |-> { } ]
    /\ UNCHANGED << rp, tcOnly, thrVars, rcOnly, rtRest >>

\* The sweep can visit d: an unmarked registered object, within the budget
\* when the collection is incremental.
Sweepable(d) ==
    /\ d \in rt.objects
    /\ ~ hdr[d].marked
    /\ rtpc.full \/ rtpc.freed < sweep_budget

\* The destroy callback of d calls GC::New<U>().
Allocates(d) ==
    hdr[d].kind = "alloc" /\ \E h \in Hdrs : hdr[h].state = "none"

\* One iteration of sweep_all or sweep_budgeted that finds d unmarked:
\* objects.erase, allocated -= size, dead->destroy().
RtSweepPlain(d) ==
    /\ rtpc.pc = "sweep"
    /\ Sweepable(d)
    /\ ~ Allocates(d)
    /\ rt' = [rt EXCEPT !.objects = @ \ { d },
                        !.allocated = @ - hdr[d].size]
    /\ hdr' = [hdr EXCEPT ![d].state = "destroyed", ![d].destroys = @ + 1]
    /\ rtpc' = [rtpc EXCEPT !.freed = IF rtpc.full THEN @
                                      ELSE @ + hdr[d].size]
    /\ UNCHANGED << rp, tcOnly, thrVars, rcOnly, rtRest >>

\* The same when ~T() calls GC::New<U>(): register_obj locks the mutex that
\* the thread holds since the outer register_obj.  Locking a std::mutex the
\* thread owns is undefined: the thread blocks for ever, or the lock
\* returns.  In the second case the inner register_obj inserts the header
\* into the set the sweep is iterating, finds gc_running set and returns,
\* unlocking the mutex; the Ptr that New returns is added to the roots and
\* removed again when the temporary is destroyed.
RtSweepAllocating(d, blocks) ==
    /\ rtpc.pc = "sweep"
    /\ Sweepable(d)
    /\ Allocates(d)
    /\ LET n  == FreshHdr
           R1 == [rt EXCEPT !.objects = @ \ { d },
                            !.allocated = @ - hdr[d].size]
           H1 == [hdr EXCEPT ![d].state = "destroyed",
                             ![d].destroys = @ + 1,
                             ![n] = [ NoHeader EXCEPT !.state = "live",
                                                      !.size = SizeOf("plain") ]]
           fr == IF rtpc.full THEN rtpc.freed ELSE rtpc.freed + hdr[d].size
       IN  /\ hdr' = H1
           /\ IF blocks
              THEN /\ rt' = R1
                   /\ rtpc' = [rtpc EXCEPT !.pc = "blocked", !.freed = fr]
              ELSE /\ rt' = ptr_reset(
                              add_root(
                                 [ Inserted(R1, n, SizeOf("plain"))
                                      EXCEPT !.mutex = FALSE ], n), n)
                   /\ rtpc' = [rtpc EXCEPT !.freed = fr,
                                           !.added = @ \cup { n }]
    /\ UNCHANGED << rp, tcOnly, thrVars, rcOnly, rtRest >>

\* The loop of the sweep ends: no unmarked object is left to visit, except
\* those inserted while it ran, which the iteration may or may not reach.
\* Then alloc_counter = 0, the flags are cleared, and register_obj returns.
RtSweepEnd ==
    /\ rtpc.pc = "sweep"
    /\ \A d \in Hdrs : Sweepable(d) => d \in rtpc.added
    /\ rt' = [rt EXCEPT !.alloc_counter = 0,
                        !.pending_full_gc = FALSE,
                        !.pending_incremental_gc = FALSE,
                        !.gc_running = FALSE,
                        !.mutex = FALSE]
    /\ rtpc' = [rtpc EXCEPT !.pc = "registered"]
    /\ UNCHANGED << hdr, rp, tcOnly, thrVars, rcOnly, rtRest >>

\* return Ptr<T>(h);  the constructor adds h to the roots.
RtNewReturn ==
    /\ rtpc.pc = "registered"
    /\ rt' = add_root(rt, rtpc.h)
    /\ rp' = [rp EXCEPT ![rtpc.p] = [ live |-> TRUE, header |-> rtpc.h ]]
    /\ rtpc' = RtIdle("New", rtpc.p)
    /\ UNCHANGED << hdr, tcOnly, thrVars, rcOnly, rtRest >>

\* Ptr<T> p;
RtDefault(p) ==
    /\ rtpc.pc = "idle"
    /\ ~ rp[p].live
    /\ rp' = [rp EXCEPT ![p] = NullPtr]
    /\ rtpc' = RtIdle("default", p)
    /\ UNCHANGED << rt, hdr, tcOnly, thrVars, rcOnly, rtRest >>

\* Ptr<T> p(q);  Ptr(const Ptr& o) : Ptr(o.header)
RtCopy(p, q) ==
    /\ rtpc.pc = "idle"
    /\ ~ rp[p].live /\ rp[q].live
    /\ rt' = IF rp[q].header # 0 THEN add_root(rt, rp[q].header) ELSE rt
    /\ rp' = [rp EXCEPT ![p] = [ live |-> TRUE, header |-> rp[q].header ]]
    /\ rtpc' = RtIdle("copy", p)
    /\ UNCHANGED << hdr, tcOnly, thrVars, rcOnly, rtRest >>

\* p = q;  reset(), header = o.header, add_root(header)
RtAssign(p, q) ==
    /\ rtpc.pc = "idle"
    /\ rp[p].live /\ rp[q].live
    /\ p # q
    /\ rt' = add_root(ptr_reset(rt, rp[p].header), rp[q].header)
    /\ rp' = [rp EXCEPT ![p].header = rp[q].header]
    /\ rtpc' = RtIdle("assign", p)
    /\ UNCHANGED << hdr, tcOnly, thrVars, rcOnly, rtRest >>

\* ~Ptr(): reset()
RtDtor(p) ==
    /\ rtpc.pc = "idle"
    /\ rp[p].live
    /\ rt' = ptr_reset(rt, rp[p].header)
    /\ rp' = [rp EXCEPT ![p] = NoPtr]
    /\ rtpc' = RtIdle("dtor", p)
    /\ UNCHANGED << hdr, tcOnly, thrVars, rcOnly, rtRest >>

RTNext ==
    \/ \E p \in RtPtrs, k \in Kinds : RtNew(p, k)
    \/ \E d \in Hdrs : RtSweepPlain(d)
    \/ \E d \in Hdrs, blocks \in BOOLEAN : RtSweepAllocating(d, blocks)
    \/ RtSweepEnd
    \/ RtNewReturn
    \/ \E p \in RtPtrs : RtDefault(p)
    \/ \E p \in RtPtrs, q \in RtPtrs : RtCopy(p, q)
    \/ \E p \in RtPtrs, q \in RtPtrs : RtAssign(p, q)
    \/ \E p \in RtPtrs : RtDtor(p)

SpecRT == TCInit /\ [][RTNext]_vars

\* The thread runs whenever it can take a step.
FairRT == SpecRT /\ WF_vars(RTNext)

-----------------------------------------------------------------------------
(***************************************************************************)
(* RC: the member functions of ControlBlock, run without interference, as  *)
(* functions from the table of blocks to the table of blocks.              *)
(***************************************************************************)
\* An access to a field of block c: after delete this, a use after free.
Touch(B, c) ==
    IF B[c].state = "deleted" THEN [B EXCEPT ![c].uaf = TRUE] ELSE B

\* A store to a field of block c, N being the table after the store: after
\* delete this the store goes to freed storage and no load finds it again.
Store(B, c, N) ==
    IF B[c].state = "deleted" THEN Touch(B, c) ELSE N

\* explicit ControlBlock(T* p, bool is_array): strong 1, weak 0.
ControlBlock(B, c) ==
    [B EXCEPT ![c] = [ NoCB EXCEPT !.state = "alive",
                                   !.gc_strong_count_ = 1,
                                   !.ptr_ = c ]]

\* verify_integrity() returns: the two sentinels are magic::alive and the
\* destroyed flag is not set.  Otherwise it throws MemorySafety.
verify_integrity(b) ==
    \/ ~ safety_checks_enabled
    \/ /\ b.magic_header_ = "alive"
       /\ b.magic_footer_ = "alive"
       /\ ~ b.control_block_destroyed_

\* The call throws before it has changed anything.
Throws(B, c) == B[c].state = "alive" /\ ~ verify_integrity(B[c])

add_strong(B, c) ==
    IF Throws(B, c) THEN B
    ELSE Store(B, c, [B EXCEPT ![c].gc_strong_count_ = (@ + 1) % SizeMod])

\* (mutant) add_weak that counts nothing.
add_weak_None(B, c) == Touch(B, c)

\* (mutant) add_weak that counts a strong unit.
add_weak_AsStrong(B, c) == add_strong(B, c)

add_weak(B, c) ==
    IF Throws(B, c) THEN B
    ELSE Store(B, c, [B EXCEPT ![c].gc_weak_count_ = (@ + 1) % SizeMod])

\* The CAS loop of try_add_strong with no other thread: one load, one CAS.
try_add_strong(B, c) ==
    LET T == Touch(B, c) IN
    IF T[c].gc_strong_count_ > 0
    THEN [ ok |-> TRUE,
           B  |-> [T EXCEPT ![c].gc_strong_count_ = (@ + 1) % SizeMod] ]
    ELSE [ ok |-> FALSE, B |-> T ]

\* destroy_object: the flag, then under the exclusive lock the exchange of
\* ptr_ with null and the delete.
destroy_object(B, c) ==
    LET T == Touch(B, c) IN
    IF T[c].object_destroyed_
    THEN T
    ELSE [T EXCEPT ![c].object_destroyed_ = TRUE,
                   ![c].ptr_ = 0,
                   ![c].obj_deletes = IF T[c].ptr_ # 0 THEN @ + 1 ELSE @]

\* delete this: ~ControlBlock() sets the flag and the sentinels, and the
\* storage is released.
delete_this(B, c) ==
    [B EXCEPT ![c].state = "deleted", ![c].cb_deletes = @ + 1,
              ![c].control_block_destroyed_ = TRUE,
              ![c].magic_header_ = "destroyed",
              ![c].magic_footer_ = "destroyed"]

release_strong(B, c) ==
    LET T   == Touch(B, c)
        old == T[c].gc_strong_count_
        B1  == [T EXCEPT ![c].gc_strong_count_ = (old + SizeMod - 1) % SizeMod,
                         ![c].zeroed = @ \/ old = 1]
    IN  IF old = 1
        THEN LET B2 == destroy_object(B1, c)
                 B3 == Touch(B2, c)
             IN  IF B3[c].gc_weak_count_ = 0 THEN delete_this(B3, c) ELSE B3
        ELSE B1

\* (mutant) release_weak that never deletes the block.
release_weak_Keep(B, c) ==
    Store(B, c, [B EXCEPT ![c].gc_weak_count_ = (@ + SizeMod - 1) % SizeMod])

release_weak(B, c) ==
    LET T   == Touch(B, c)
        old == T[c].gc_weak_count_
        B1  == [T EXCEPT ![c].gc_weak_count_ = (old + SizeMod - 1) % SizeMod]
    IN  IF old = 1
        THEN IF B1[c].gc_strong_count_ = 0 THEN delete_this(B1, c) ELSE B1
        ELSE B1

\* VSharedPtr::release() of a handle with the fields v.
release(B, v) ==
    IF v.ctrl_ # 0
    THEN IF v.is_weak_ THEN release_weak(B, v.ctrl_)
                       ELSE release_strong(B, v.ctrl_)
    ELSE B

\* if (c) { if (w) c->add_weak(); else c->add_strong(); }
AddUnit(B, v) ==
    IF v.ctrl_ # 0
    THEN IF v.is_weak_ THEN add_weak(B, v.ctrl_) ELSE add_strong(B, v.ctrl_)
    ELSE B

Handle(c, w) == [ live |-> TRUE, ctrl_ |-> c, is_weak_ |-> w ]

FreshCB == CHOOSE c \in CBs :
              /\ cb[c].state = "none"
              /\ \A b \in CBs : cb[b].state = "none" => c <= b

Last(op, d, s, res) == [ op |-> op, d |-> d, s |-> s, res |-> res ]

\* What an operation of the single-threaded RC program leaves alone.
rcSeqFrame == << tcVars, thrVars, object_mutex_, shared, rpc, rtl >>

-----------------------------------------------------------------------------
(***************************************************************************)
(* RC: ControlBlock by itself.  The five member functions that change a    *)
(* counter are applied to a block whose counters are any small values and  *)
(* whose sentinels and destroyed flag may have been overwritten.           *)
(***************************************************************************)
Magics == { "alive", "other" }

\* A block with strong count s and weak count w that is allocated: one of
\* the two is not 0.  With no strong unit left the object has been deleted.
BlockWith(c, s, w, mh, mf, fl) ==
    [ NoCB EXCEPT !.state = "alive",
                  !.gc_strong_count_ = s,
                  !.gc_weak_count_ = w,
                  !.ptr_ = IF s = 0 THEN 0 ELSE c,
                  !.object_destroyed_ = (s = 0),
                  !.obj_deletes = IF s = 0 THEN 1 ELSE 0,
                  !.zeroed = (s = 0),
                  !.magic_header_ = mh,
                  !.magic_footer_ = mf,
                  !.control_block_destroyed_ = fl ]

CBInit ==
    /\ TCIdle
    /\ \E s \in 0 .. MaxUnits, w \in 0 .. MaxUnits :
       \E mh \in Magics, mf \in Magics, fl \in BOOLEAN :
          /\ s + w > 0
          /\ cb = [c \in CBs |-> IF c = 1 THEN BlockWith(c, s, w, mh, mf, fl)
                                 ELSE NoCB]
    /\ object_mutex_ = [c \in CBs |-> FreeMutex]
    /\ hd = [h \in RHandles |-> NoHandle]
    /\ shared = { }
    /\ rpc = [t \in RThreads |-> "idle"]
    /\ rtl = [t \in RThreads |-> NoRLocals]
    /\ rlast = NoLast

\* What a call on the block leaves alone.
cbFrame == << hd, rcSeqFrame >>

\* c->add_strong(); rlast.res tells whether the call returned.
BAddStrong(c) ==
    /\ cb[c].state = "alive"
    /\ cb[c].gc_strong_count_ < MaxUnits
    /\ cb' = add_strong(cb, c)
    /\ rlast' = Last("add_strong", 0, c, ~ Throws(cb, c))
    /\ UNCHANGED cbFrame

\* c->add_weak()
BAddWeak(c) ==
    /\ cb[c].state = "alive"
    /\ cb[c].gc_weak_count_ < MaxUnits
    /\ cb' = add_weak(cb, c)
    /\ rlast' = Last("add_weak", 0, c, ~ Throws(cb, c))
    /\ UNCHANGED cbFrame

\* c->try_add_strong(): noexcept, it always returns.
BTryAddStrong(c) ==
    /\ cb[c].state = "alive"
    /\ cb[c].gc_strong_count_ < MaxUnits
    /\ cb' = try_add_strong(cb, c).B
    /\ rlast' = Last("try_add_strong", 0, c, TRUE)
    /\ UNCHANGED cbFrame

\* c->release_strong(): noexcept
BReleaseStrong(c) ==
    /\ cb[c].state = "alive"
    /\ cb' = release_strong(cb, c)
    /\ rlast' = Last("release_strong", 0, c, TRUE)
    /\ UNCHANGED cbFrame

\* c->release_weak(): noexcept
BReleaseWeak(c) ==
    /\ cb[c].state = "alive"
    /\ cb' = release_weak(cb, c)
    /\ rlast' = Last("release_weak", 0, c, TRUE)
    /\ UNCHANGED cbFrame

CBNext ==
    \/ \E c \in CBs : BAddStrong(c)
    \/ \E c \in CBs : BAddWeak(c)
    \/ \E c \in CBs : BTryAddStrong(c)
    \/ \E c \in CBs : BReleaseStrong(c)
    \/ \E c \in CBs : BReleaseWeak(c)

SpecCB == CBInit /\ [][CBNext]_vars

-----------------------------------------------------------------------------
(***************************************************************************)
(* RC: the operations of VSharedPtr, one thread, each one step.            *)
(***************************************************************************)
\* explicit VSharedPtr(Elem* ptr) with the pointer new T has returned
\* (VMakeShared).
RFromRaw(d) ==
    /\ ~ hd[d].live
    /\ \E c \in CBs : cb[c].state = "none"
    /\ cb' = ControlBlock(cb, FreshCB)
    /\ hd' = [hd EXCEPT ![d] = Handle(FreshCB, FALSE)]
    /\ rlast' = Last("new", d, 0, TRUE)
    /\ UNCHANGED rcSeqFrame

\* VSharedPtr(), VSharedPtr(nullptr), and VSharedPtr(Elem*) of a null pointer.
RDefault(d) ==
    /\ ~ hd[d].live
    /\ hd' = [hd EXCEPT ![d] = NullHandle]
    /\ rlast' = Last("other", 0, 0, FALSE)
    /\ UNCHANGED << cb, rcSeqFrame >>

\* VSharedPtr(const VSharedPtr& o)
RCopyCtor(d, s) ==
    /\ ~ hd[d].live /\ hd[s].live
    /\ cb' = AddUnit(cb, hd[s])
    /\ hd' = [hd EXCEPT ![d] = Handle(hd[s].ctrl_, hd[s].is_weak_)]
    /\ rlast' = Last("other", 0, 0, FALSE)
    /\ UNCHANGED rcSeqFrame

\* VSharedPtr(VSharedPtr&& o)
RMoveCtor(d, s) ==
    /\ ~ hd[d].live /\ hd[s].live
    /\ hd' = [hd EXCEPT ![d] = Handle(hd[s].ctrl_, hd[s].is_weak_),
                        ![s] = NullHandle]
    /\ rlast' = Last("move", d, s, FALSE)
    /\ UNCHANGED << cb, rcSeqFrame >>

\* operator=(const VSharedPtr& o): VSharedPtr tmp(o); swap(tmp); ~tmp
RCopyAssign(d, s) ==
    /\ hd[d].live /\ hd[s].live
    /\ IF d = s
       THEN UNCHANGED << cb, hd >>
       ELSE /\ cb' = release(AddUnit(cb, hd[s]), hd[d])
            /\ hd' = [hd EXCEPT ![d] = hd[s]]
    /\ rlast' = Last("other", 0, 0, FALSE)
    /\ UNCHANGED rcSeqFrame

\* operator=(VSharedPtr&& o): release(); then the two exchanges
RMoveAssign(d, s) ==
    /\ hd[d].live /\ hd[s].live
    /\ IF d = s
       THEN UNCHANGED << cb, hd >>
       ELSE /\ cb' = release(cb, hd[d])
            /\ hd' = [hd EXCEPT ![d] = hd[s], ![s] = NullHandle]
    /\ rlast' = Last("move", d, s, FALSE)
    /\ UNCHANGED rcSeqFrame

\* reset() and operator=(nullptr)
RReset(d) ==
    /\ hd[d].live
    /\ cb' = release(cb, hd[d])
    /\ hd' = [hd EXCEPT ![d] = NullHandle]
    /\ rlast' = Last("other", 0, 0, FALSE)
    /\ UNCHANGED rcSeqFrame

\* reset(Elem* ptr): VSharedPtr tmp(ptr); swap(tmp); ~tmp
RResetRaw(d) ==
    /\ hd[d].live
    /\ \E c \in CBs : cb[c].state = "none"
    /\ cb' = release(ControlBlock(cb, FreshCB), hd[d])
    /\ hd' = [hd EXCEPT ![d] = Handle(FreshCB, FALSE)]
    /\ rlast' = Last("new", d, 0, TRUE)
    /\ UNCHANGED rcSeqFrame

\* make_weak(strong_ref)
RMakeWeak(d, s) ==
    /\ ~ hd[d].live /\ hd[s].live
    /\ IF hd[s].ctrl_ = 0 \/ hd[s].is_weak_
       THEN /\ hd' = [hd EXCEPT ![d] = NullHandle]
            /\ rlast' = Last("make_weak", d, s, FALSE)
            /\ UNCHANGED cb
       ELSE /\ hd' = [hd EXCEPT ![d] = Handle(hd[s].ctrl_, TRUE)]
            /\ cb' = add_weak(cb, hd[s].ctrl_)
            /\ rlast' = Last("make_weak", d, s, TRUE)
    /\ UNCHANGED rcSeqFrame

\* lock(): the result is handle d; res tells whether it is non-null.
RLock(d, s) ==
    /\ ~ hd[d].live /\ hd[s].live
    /\ IF ~ hd[s].is_weak_
       THEN /\ cb' = AddUnit(cb, hd[s])
            /\ hd' = [hd EXCEPT ![d] = Handle(hd[s].ctrl_, FALSE)]
            /\ rlast' = Last("lock", d, s, hd[s].ctrl_ # 0)
       ELSE IF hd[s].ctrl_ = 0
       THEN /\ hd' = [hd EXCEPT ![d] = NullHandle]
            /\ rlast' = Last("lock", 0, 0, FALSE)
            /\ UNCHANGED cb
       ELSE LET r == try_add_strong(cb, hd[s].ctrl_) IN
            /\ cb' = r.B
            /\ hd' = [hd EXCEPT ![d] = IF r.ok THEN Handle(hd[s].ctrl_, FALSE)
                                               ELSE NullHandle]
            /\ rlast' = Last("lock", d, s, r.ok)
    /\ UNCHANGED rcSeqFrame

\* weak(other)
RWeak(d, s) ==
    /\ hd[d].live /\ hd[s].live
    /\ IF d = s
       THEN UNCHANGED << cb, hd >>
       ELSE IF hd[s].ctrl_ # 0 /\ ~ hd[s].is_weak_
       THEN /\ cb' = add_weak(release(cb, hd[d]), hd[s].ctrl_)
            /\ hd' = [hd EXCEPT ![d] = Handle(hd[s].ctrl_, TRUE)]
       ELSE /\ cb' = release(cb, hd[d])
            /\ hd' = [hd EXCEPT ![d] = NullHandle]
    /\ rlast' = Last("other", 0, 0, FALSE)
    /\ UNCHANGED rcSeqFrame

\* swap(other)
RSwap(d, s) ==
    /\ hd[d].live /\ hd[s].live
    /\ hd' = [hd EXCEPT ![d] = hd[s], ![s] = hd[d]]
    /\ rlast' = Last("other", 0, 0, FALSE)
    /\ UNCHANGED << cb, rcSeqFrame >>

\* ~VSharedPtr()
RDtor(d) ==
    /\ hd[d].live
    /\ cb' = release(cb, hd[d])
    /\ hd' = [hd EXCEPT ![d] = NoHandle]
    /\ rlast' = Last("other", 0, 0, FALSE)
    /\ UNCHANGED rcSeqFrame

\* expired(): !c || !c->is_alive()
RExpired(s) ==
    /\ hd[s].live
    /\ IF hd[s].ctrl_ = 0
       THEN /\ rlast' = Last("expired", 0, s, TRUE)
            /\ UNCHANGED cb
       ELSE /\ cb' = Touch(cb, hd[s].ctrl_)
            /\ rlast' = Last("expired", 0, s,
                             ~ (cb[hd[s].ctrl_].gc_strong_count_ > 0))
    /\ UNCHANGED << hd, rcSeqFrame >>

RCInit == TCInit

RCNext ==
    \/ \E d \in RHandles : RFromRaw(d)
    \/ \E d \in RHandles : RDefault(d)
    \/ \E d \in RHandles, s \in RHandles : RCopyCtor(d, s)
    \/ \E d \in RHandles, s \in RHandles : RMoveCtor(d, s)
    \/ \E d \in RHandles, s \in RHandles : RCopyAssign(d, s)
    \/ \E d \in RHandles, s \in RHandles : RMoveAssign(d, s)
    \/ \E d \in RHandles : RReset(d)
    \/ \E d \in RHandles : RResetRaw(d)
    \/ \E d \in RHandles, s \in RHandles : RMakeWeak(d, s)
    \/ \E d \in RHandles, s \in RHandles : RLock(d, s)
    \/ \E d \in RHandles, s \in RHandles : RWeak(d, s)
    \/ \E d \in RHandles, s \in RHandles : RSwap(d, s)
    \/ \E d \in RHandles : RDtor(d)
    \/ \E s \in RHandles : RExpired(s)

SpecRC == RCInit /\ [][RCNext]_vars

-----------------------------------------------------------------------------
(***************************************************************************)
(* RC: dereference, one thread.  operator->, operator*, operator[] and     *)
(* lock_access load ctrl_ and is_weak_ and call throw_or_abort for a weak  *)
(* or null handle before they touch the control block; otherwise they     *)
(* read ptr_ and take object_mutex_ for the time of the access.            *)
(***************************************************************************)
DerefOps == { "arrow", "star", "index", "lock_access" }

\* (mutant) the check without its weak half.
DerefFails_NullOnly(v) == v.ctrl_ = 0

\* if (w) throw_or_abort(...); if (!c) throw_or_abort(...);
DerefFails(v) == v.is_weak_ \/ v.ctrl_ = 0

\* One whole dereference of handle s.  rlast.res tells whether it returned,
\* rlast.d the block whose object_mutex_ it has taken (0: none).  The lock of
\* operator* and operator[] ends with the call, that of the LockedProxy with
\* the full expression.
RDeref(s, op) ==
    /\ hd[s].live
    /\ IF DerefFails(hd[s])
       THEN /\ rlast' = Last(op, 0, s, FALSE)
            /\ UNCHANGED cb
       ELSE /\ cb' = Touch(cb, hd[s].ctrl_)
            /\ rlast' = Last(op, hd[s].ctrl_, s, TRUE)
    /\ UNCHANGED << hd, rcSeqFrame >>

RCDNext ==
    \/ \E d \in RHandles : RFromRaw(d)
    \/ \E d \in RHandles : RDefault(d)
    \/ \E d \in RHandles, s \in RHandles : RCopyCtor(d, s)
    \/ \E d \in RHandles : RReset(d)
    \/ \E d \in RHandles, s \in RHandles : RMakeWeak(d, s)
    \/ \E d \in RHandles, s \in RHandles : RLock(d, s)
    \/ \E d \in RHandles : RDtor(d)
    \/ \E s \in RHandles, op \in DerefOps : RDeref(s, op)

SpecRCD == RCInit /\ [][RCDNext]_vars

-----------------------------------------------------------------------------
(***************************************************************************)
(* RC, the variant of src/gc/cpp/VSharedPtr.hpp: its ControlBlock has no   *)
(* sentinels, no mutex and no underflow guard, and its VSharedPtr has      *)
(* Ref() and safe() where the other has weak() and make_weak().  One       *)
(* thread, each operation a whole call, on the tables cb and hd.           *)
(***************************************************************************)
\* add_strong(), add_weak(): fetch_add(1)
add_strong_gc(B, c) ==
    Store(B, c, [B EXCEPT ![c].gc_strong_count_ = (@ + 1) % SizeMod])

add_weak_gc(B, c) ==
    Store(B, c, [B EXCEPT ![c].gc_weak_count_ = (@ + 1) % SizeMod])

\* destroy_object(): the compare-exchange of the flag, the exchange of ptr_
\* with null, and the delete.
destroy_object_gc(B, c) ==
    LET T == Touch(B, c) IN
    IF T[c].object_destroyed_
    THEN T
    ELSE [T EXCEPT ![c].object_destroyed_ = TRUE,
                   ![c].ptr_ = 0,
                   ![c].obj_deletes = IF T[c].ptr_ # 0 THEN @ + 1 ELSE @]

\* delete this: the class has no destructor; the storage is released.
delete_this_gc(B, c) ==
    [B EXCEPT ![c].state = "deleted", ![c].cb_deletes = @ + 1]

\* release_strong(): if (fetch_sub(1) == 1) { destroy_object();
\* if (weak == 0) delete this; }
release_strong_gc(B, c) ==
    LET T   == Touch(B, c)
        old == T[c].gc_strong_count_
        B1  == [T EXCEPT ![c].gc_strong_count_ = (old + SizeMod - 1) % SizeMod,
                         ![c].zeroed = @ \/ old = 1]
    IN  IF old = 1
        THEN LET B2 == destroy_object_gc(B1, c) IN
             IF B2[c].gc_weak_count_ = 0 THEN delete_this_gc(B2, c) ELSE B2
        ELSE B1

\* release_weak(): if (fetch_sub(1) == 1) { if (strong == 0) delete this; }
release_weak_gc(B, c) ==
    LET T   == Touch(B, c)
        old == T[c].gc_weak_count_
        B1  == [T EXCEPT ![c].gc_weak_count_ = (old + SizeMod - 1) % SizeMod]
    IN  IF old = 1
        THEN IF B1[c].gc_strong_count_ = 0 THEN delete_this_gc(B1, c) ELSE B1
        ELSE B1

\* VSharedPtr::release() of a handle with the fields v: ctrl_ and is_weak_
\* are left as they are.
release_gc(B, v) ==
    IF v.ctrl_ # 0
    THEN IF v.is_weak_ THEN release_weak_gc(B, v.ctrl_)
                       ELSE release_strong_gc(B, v.ctrl_)
    ELSE B

\* VSharedPtr d(new T)
GFromRaw(d) ==
    /\ ~ hd[d].live
    /\ \E c \in CBs : cb[c].state = "none"
    /\ cb' = ControlBlock(cb, FreshCB)
    /\ hd' = [hd EXCEPT ![d] = Handle(FreshCB, FALSE)]
    /\ rlast' = Last("other", 0, 0, FALSE)
    /\ UNCHANGED rcSeqFrame

\* VSharedPtr d;
GDefault(d) ==
    /\ ~ hd[d].live
    /\ hd' = [hd EXCEPT ![d] = NullHandle]
    /\ rlast' = Last("other", 0, 0, FALSE)
    /\ UNCHANGED << cb, rcSeqFrame >>

\* VSharedPtr d(s);
GCopyCtor(d, s) ==
    /\ ~ hd[d].live /\ hd[s].live
    /\ cb' = IF hd[s].ctrl_ = 0 THEN cb
             ELSE IF hd[s].is_weak_ THEN add_weak_gc(cb, hd[s].ctrl_)
             ELSE add_strong_gc(cb, hd[s].ctrl_)
    /\ hd' = [hd EXCEPT ![d] = Handle(hd[s].ctrl_, hd[s].is_weak_)]
    /\ rlast' = Last("other", 0, 0, FALSE)
    /\ UNCHANGED rcSeqFrame

\* auto d = x.safe(s);  a weak handle to the block of the strong handle s,
\* or a null handle.
GSafe(d, s) ==
    /\ ~ hd[d].live /\ hd[s].live
    /\ IF hd[s].ctrl_ = 0 \/ hd[s].is_weak_
       THEN /\ hd' = [hd EXCEPT ![d] = NullHandle]
            /\ UNCHANGED cb
       ELSE /\ hd' = [hd EXCEPT ![d] = Handle(hd[s].ctrl_, TRUE)]
            /\ cb' = add_weak_gc(cb, hd[s].ctrl_)
    /\ rlast' = Last("other", 0, 0, FALSE)
    /\ UNCHANGED rcSeqFrame

\* d.Ref(s): release(); then, only when s is strong and not null, add_weak
\* and the two stores.  res tells whether s was strong and not null.
GRef(d, s) ==
    /\ hd[d].live /\ hd[s].live
    /\ IF d = s
       THEN UNCHANGED << cb, hd >>
       ELSE LET B1 == release_gc(cb, hd[d]) IN
            IF hd[s].ctrl_ # 0 /\ ~ hd[s].is_weak_
            THEN /\ cb' = add_weak_gc(B1, hd[s].ctrl_)
                 /\ hd' = [hd EXCEPT ![d] = Handle(hd[s].ctrl_, TRUE)]
            ELSE /\ cb' = B1
                 /\ UNCHANGED hd
    /\ rlast' = Last("Ref", d, s, hd[s].ctrl_ # 0 /\ ~ hd[s].is_weak_)
    /\ UNCHANGED rcSeqFrame

\* d.reset(): release(); ctrl_ = nullptr; is_weak_ = false;
GReset(d) ==
    /\ hd[d].live
    /\ cb' = release_gc(cb, hd[d])
    /\ hd' = [hd EXCEPT ![d] = NullHandle]
    /\ rlast' = Last("other", 0, 0, FALSE)
    /\ UNCHANGED rcSeqFrame

\* ~VSharedPtr(): release()
GDtor(d) ==
    /\ hd[d].live
    /\ cb' = release_gc(cb, hd[d])
    /\ hd' = [hd EXCEPT ![d] = NoHandle]
    /\ rlast' = Last("other", 0, 0, FALSE)
    /\ UNCHANGED rcSeqFrame

\* No freed block has been accessed and no counter has wrapped below zero
\* (a count above the number of handles): what the program does after
\* either is not followed further.
GSound ==
    \A c \in CBs :
       /\ ~ cb[c].uaf
       /\ cb[c].gc_strong_count_ <= NumGHandles
       /\ cb[c].gc_weak_count_ <= NumGHandles

\* The local variables of the program.
GHandles == 1 .. NumGHandles

GVNext ==
    \/ \E d \in GHandles : GSound /\ GFromRaw(d)
    \/ \E d \in GHandles : GSound /\ GDefault(d)
    \/ \E d \in GHandles, s \in GHandles : GSound /\ GCopyCtor(d, s)
    \/ \E d \in GHandles, s \in GHandles : GSound /\ GSafe(d, s)
    \/ \E d \in GHandles, s \in GHandles : GSound /\ GRef(d, s)
    \/ \E d \in GHandles : GSound /\ GReset(d)
    \/ \E d \in GHandles : GSound /\ GDtor(d)

SpecGV == RCInit /\ [][GVNext]_vars

-----------------------------------------------------------------------------
(***************************************************************************)
(* RC: the program of test/cpp_test.cpp 91-97, one thread.  The managed    *)
(* objects are Nodes; the member prev of the Node of block c is the handle *)
(* prev(c), constructed null with the Node and destroyed with it.  The     *)
(* other handles are the local variables of main.  prev is only assigned   *)
(* by weak() and reset(), as in the test.                                  *)
(***************************************************************************)
NStack == 1 .. (NumRC - MaxCBs)

prev(c) == NumRC - MaxCBs + c

\* ~Node(): the destructor of the member prev, which is weak or null.
NodeDtor(B, H, c) ==
    [ B |-> IF H[prev(c)].live /\ H[prev(c)].ctrl_ # 0
            THEN release_weak(B, H[prev(c)].ctrl_)
            ELSE B,
      H |-> [H EXCEPT ![prev(c)] = NoHandle] ]

\* release_strong() on the block of a Node: delete p in destroy_object runs
\* ~Node().  The results are the tables of blocks and handles the call can
\* leave: when ~Node() has deleted the block itself, the load of the weak
\* count reads freed storage and either outcome of the test can follow.
NodeReleaseStrong(B, H, c) ==
    LET T   == Touch(B, c)
        old == T[c].gc_strong_count_
        B1  == [T EXCEPT ![c].gc_strong_count_ = (old + SizeMod - 1) % SizeMod,
                         ![c].zeroed = @ \/ old = 1]
        ran == ~ B1[c].object_destroyed_ /\ B1[c].ptr_ # 0
        B2  == destroy_object(B1, c)
        S   == IF ran THEN NodeDtor(B2, H, c) ELSE [ B |-> B2, H |-> H ]
        B3  == Touch(S.B, c)
    IN  IF old = 1
        THEN IF S.B[c].state = "deleted"
             THEN { [ B |-> B3, H |-> S.H ],
                    [ B |-> delete_this(B3, c), H |-> S.H ] }
             ELSE IF B3[c].gc_weak_count_ = 0
             THEN { [ B |-> delete_this(B3, c), H |-> S.H ] }
             ELSE { [ B |-> B3, H |-> S.H ] }
        ELSE { [ B |-> B1, H |-> H ] }

\* VSharedPtr::release() of a handle with the fields v.
NodeRelease(B, H, v) ==
    IF v.ctrl_ = 0 THEN { [ B |-> B, H |-> H ] }
    ELSE IF v.is_weak_ THEN { [ B |-> release_weak(B, v.ctrl_), H |-> H ] }
    ELSE NodeReleaseStrong(B, H, v.ctrl_)

nodeFrame == << tcVars, thrVars, object_mutex_, shared, rpc, rtl >>

\* auto d = VMakeShared<Node>(): new Node() constructs prev null.
NMake(d) ==
    /\ ~ hd[d].live
    /\ \E c \in CBs : cb[c].state = "none"
    /\ cb' = ControlBlock(cb, FreshCB)
    /\ hd' = [hd EXCEPT ![d] = Handle(FreshCB, FALSE),
                        ![prev(FreshCB)] = NullHandle]
    /\ rlast' = Last("new", d, 0, TRUE)
    /\ UNCHANGED nodeFrame

\* auto d = s;
NCopy(d, s) ==
    /\ ~ hd[d].live /\ hd[s].live
    /\ cb' = AddUnit(cb, hd[s])
    /\ hd' = [hd EXCEPT ![d] = Handle(hd[s].ctrl_, hd[s].is_weak_)]
    /\ rlast' = Last("other", 0, 0, FALSE)
    /\ UNCHANGED nodeFrame

\* h->prev.weak(s): operator-> of a strong non-null handle, and weak() on
\* the member of its Node.
NPrevWeak(h, s) ==
    /\ hd[h].live /\ hd[s].live
    /\ ~ hd[h].is_weak_ /\ hd[h].ctrl_ # 0
    /\ cb[hd[h].ctrl_].ptr_ # 0
    /\ LET m  == prev(hd[h].ctrl_)
           B1 == release(cb, hd[m])
       IN  IF hd[s].ctrl_ # 0 /\ ~ hd[s].is_weak_
           THEN /\ cb' = add_weak(B1, hd[s].ctrl_)
                /\ hd' = [hd EXCEPT ![m] = Handle(hd[s].ctrl_, TRUE)]
           ELSE /\ cb' = B1
                /\ hd' = [hd EXCEPT ![m] = NullHandle]
    /\ rlast' = Last("other", 0, 0, FALSE)
    /\ UNCHANGED nodeFrame

\* h->prev.reset()
NPrevReset(h) ==
    /\ hd[h].live
    /\ ~ hd[h].is_weak_ /\ hd[h].ctrl_ # 0
    /\ cb[hd[h].ctrl_].ptr_ # 0
    /\ LET m == prev(hd[h].ctrl_) IN
       /\ cb' = release(cb, hd[m])
       /\ hd' = [hd EXCEPT ![m] = NullHandle]
    /\ rlast' = Last("other", 0, 0, FALSE)
    /\ UNCHANGED nodeFrame

\* The local variable d goes out of scope.  rlast records the block of d,
\* the block of the prev of its Node, and whether d was its last strong
\* handle.
NDtor(d) ==
    /\ hd[d].live
    /\ \E S \in NodeRelease(cb, hd, hd[d]) :
          /\ cb' = S.B
          /\ hd' = [S.H EXCEPT ![d] = NoHandle]
    /\ rlast' = LET c == hd[d].ctrl_ IN
                IF c # 0 /\ ~ hd[d].is_weak_
                THEN Last("dtor", hd[prev(c)].ctrl_, c,
                          cb[c].gc_strong_count_ = 1)
                ELSE Last("other", 0, 0, FALSE)
    /\ UNCHANGED nodeFrame

NodeInit == TCIdle /\ RCNone

NodeNext ==
    \/ \E d \in NStack : NMake(d)
    \/ \E d \in NStack, s \in NStack : NCopy(d, s)
    \/ \E h \in NStack, s \in NStack : NPrevWeak(h, s)
    \/ \E h \in NStack : NPrevReset(h)
    \/ \E d \in NStack : NDtor(d)

SpecNode == NodeInit /\ [][NodeNext]_vars

-----------------------------------------------------------------------------
(***************************************************************************)
(* RC: several threads.  Every access to a control block or to a shared    *)
(* handle is a step of its own.  A handle belongs to one thread, and only  *)
(* that thread uses it, unless it is in `shared` (a global every thread    *)
(* uses).  A read of a field of a deleted block yields any value; a write  *)
(* goes to the freed storage; both are recorded in uaf.                    *)
(***************************************************************************)
Owner(h) == ((h - 1) % NumRCThreads) + 1

CanUse(t, h) == hd[h].live /\ (Owner(h) = t \/ h \in shared)

RIdle(t) == rpc[t] = "idle"

RGoto(t, l) == rpc' = [rpc EXCEPT ![t] = l]

\* The operation of thread t is over.
RDone(t) ==
    /\ rpc' = [rpc EXCEPT ![t] = "idle"]
    /\ rtl' = [rtl EXCEPT ![t] = NoRLocals]

\* The values a load of a counter of block c can return.
LoadCount(c, v) ==
    IF cb[c].state = "deleted" THEN 0 .. (SizeMod - 1) ELSE { v }

\* The values a load of a flag of block c can return.
LoadFlag(c, v) ==
    IF cb[c].state = "deleted" THEN BOOLEAN ELSE { v }

\* The values a load of ptr_ of block c can return.
LoadPtr(c) ==
    IF cb[c].state = "deleted" THEN { 0, c } ELSE { cb[c].ptr_ }

\* if (weak == 0) / if (strong == 0), VSharedPtr.hpp 321, 345
NoOtherUnits(n) == n = 0

\* (mutant) a loop that tries the compare-exchange on a zero count too.
CanAddStrong_Always(count) == TRUE

\* while (count > 0), VSharedPtr.hpp 288
CanAddStrong(count) == count > 0

CanLockExclusive(c) ==
    object_mutex_[c].excl = 0 /\ object_mutex_[c].shared = { }

CanLockShared(c) == object_mutex_[c].excl = 0

\* std::unique_lock lock(object_mutex_)
LockExclusive(m, t) == [m EXCEPT !.excl = t]

\* release(): the handle h of thread t gives up its unit.  What follows the
\* release is the end of the destructor or the two stores of reset().
KRelease(t, h, op) ==
    LET c == hd[h].ctrl_ IN
    IF c = 0
    THEN /\ hd' = [hd EXCEPT ![h] = IF op = "dtor" THEN NoHandle
                                                    ELSE NullHandle]
         /\ UNCHANGED << rpc, rtl >>
    ELSE /\ hd' = [hd EXCEPT ![h] = IF op = "dtor" THEN NoHandle ELSE @]
         /\ rtl' = [rtl EXCEPT ![t] = [ NoRLocals EXCEPT !.op = op, !.h = h,
                                                         !.c = c ]]
         /\ RGoto(t, IF hd[h].is_weak_ THEN "rw_sub" ELSE "rs_sub")

\* ~VSharedPtr()
KDtor(t, h) ==
    /\ RIdle(t)
    /\ hd[h].live /\ Owner(h) = t /\ h \notin shared
    /\ KRelease(t, h, "dtor")
    /\ UNCHANGED << tcVars, thrVars, cb, object_mutex_, shared, rlast >>

\* reset(): release(); store_ctrl(nullptr); store_weak(false);
KReset(t, h) ==
    /\ RIdle(t)
    /\ CanUse(t, h)
    /\ KRelease(t, h, "reset")
    /\ UNCHANGED << tcVars, thrVars, cb, object_mutex_, shared, rlast >>

\* release_strong / release_weak return.
KReturn(t) ==
    IF rtl[t].op = "reset"
    THEN RGoto(t, "rst_store") /\ UNCHANGED rtl
    ELSE RDone(t)

\* The stores that end reset().
KResetStore(t) ==
    /\ rpc[t] = "rst_store"
    /\ hd' = [hd EXCEPT ![rtl[t].h] = NullHandle]
    /\ RDone(t)
    /\ UNCHANGED << tcVars, thrVars, cb, object_mutex_, shared, rlast >>

\* release_strong, 306-312: the fetch_sub and the test of the old count.
KStrongSub(t) ==
    /\ rpc[t] = "rs_sub"
    /\ LET c == rtl[t].c IN
       \E old \in LoadCount(c, cb[c].gc_strong_count_) :
          /\ cb' = Store(cb, c, [cb EXCEPT
                      ![c].gc_strong_count_ = (@ + SizeMod - 1) % SizeMod,
                      ![c].zeroed = @ \/ old = 1])
          /\ IF old = 1
             THEN RGoto(t, "do_load") /\ UNCHANGED rtl
             ELSE KReturn(t)
    /\ UNCHANGED << tcVars, thrVars, object_mutex_, hd, shared, rlast >>

\* destroy_object, 223: if (load_destroyed()) return;
KDestroyLoad(t) ==
    /\ rpc[t] = "do_load"
    /\ LET c == rtl[t].c IN
       /\ cb' = Touch(cb, c)
       /\ \E f \in LoadFlag(c, cb[c].object_destroyed_) :
             RGoto(t, IF f THEN "rs_weak" ELSE "do_cas")
    /\ UNCHANGED << tcVars, thrVars, object_mutex_, hd, shared, rtl, rlast >>

\* destroy_object, 226-229: the compare_exchange on object_destroyed_.
KDestroyCas(t) ==
    /\ rpc[t] = "do_cas"
    /\ LET c == rtl[t].c IN
       \E f \in LoadFlag(c, cb[c].object_destroyed_) :
          IF f
          THEN /\ cb' = Touch(cb, c)
               /\ RGoto(t, "rs_weak")
          ELSE /\ cb' = Store(cb, c,
                                [cb EXCEPT ![c].object_destroyed_ = TRUE,
                                           ![c].winner = t])
               /\ RGoto(t, "do_lock")
    /\ UNCHANGED << tcVars, thrVars, object_mutex_, hd, shared, rtl, rlast >>

\* destroy_object, 239: the exclusive lock.
KDestroyLock(t) ==
    /\ rpc[t] = "do_lock"
    /\ LET c == rtl[t].c IN
       /\ cb[c].state = "deleted" \/ CanLockExclusive(c)
       /\ object_mutex_' = IF cb[c].state = "deleted"
                           THEN object_mutex_
                           ELSE [object_mutex_ EXCEPT
                                   ![c] = LockExclusive(@, t)]
       /\ cb' = Touch(cb, c)
    /\ RGoto(t, "do_xchg")
    /\ UNCHANGED << tcVars, thrVars, hd, shared, rtl, rlast >>

\* destroy_object, 240: T* p = exchange_ptr_impl(nullptr)
KDestroyXchg(t) ==
    /\ rpc[t] = "do_xchg"
    /\ LET c == rtl[t].c IN
       \E p \in LoadPtr(c) :
          /\ cb' = Store(cb, c, [cb EXCEPT ![c].ptr_ = 0])
          /\ rtl' = [rtl EXCEPT ![t].p = p]
          /\ RGoto(t, IF p # 0 THEN "do_delete" ELSE "do_unlock")
    /\ UNCHANGED << tcVars, thrVars, object_mutex_, hd, shared, rlast >>

\* destroy_object, 241-244: delete p
KDestroyDelete(t) ==
    /\ rpc[t] = "do_delete"
    /\ cb[rtl[t].p].obj_deletes < MaxDeletes
    /\ cb' = [cb EXCEPT ![rtl[t].p].obj_deletes = @ + 1]
    /\ RGoto(t, "do_unlock")
    /\ UNCHANGED << tcVars, thrVars, object_mutex_, hd, shared, rtl, rlast >>

\* destroy_object, 245: the lock goes out of scope.
KDestroyUnlock(t) ==
    /\ rpc[t] = "do_unlock"
    /\ LET c == rtl[t].c IN
       /\ object_mutex_' = [object_mutex_ EXCEPT
             ![c].excl = IF @ = t THEN 0 ELSE @]
       /\ cb' = Touch(cb, c)
    /\ RGoto(t, "rs_weak")
    /\ UNCHANGED << tcVars, thrVars, hd, shared, rtl, rlast >>

\* release_strong, 320-321: the load of the weak count.
KStrongLoadWeak(t) ==
    /\ rpc[t] = "rs_weak"
    /\ LET c == rtl[t].c IN
       /\ cb' = Touch(cb, c)
       /\ \E weak \in LoadCount(c, cb[c].gc_weak_count_) :
             IF NoOtherUnits(weak)
             THEN RGoto(t, "delete") /\ UNCHANGED rtl
             ELSE KReturn(t)
    /\ UNCHANGED << tcVars, thrVars, object_mutex_, hd, shared, rlast >>

\* release_weak, 333-339: the fetch_sub and the test of the old count.
KWeakSub(t) ==
    /\ rpc[t] = "rw_sub"
    /\ LET c == rtl[t].c IN
       \E old \in LoadCount(c, cb[c].gc_weak_count_) :
          /\ cb' = Store(cb, c, [cb EXCEPT
                      ![c].gc_weak_count_ = (@ + SizeMod - 1) % SizeMod])
          /\ IF old = 1
             THEN RGoto(t, "rw_strong") /\ UNCHANGED rtl
             ELSE KReturn(t)
    /\ UNCHANGED << tcVars, thrVars, object_mutex_, hd, shared, rlast >>

\* release_weak, 344-345: the load of the strong count.
KWeakLoadStrong(t) ==
    /\ rpc[t] = "rw_strong"
    /\ LET c == rtl[t].c IN
       /\ cb' = Touch(cb, c)
       /\ \E strong \in LoadCount(c, cb[c].gc_strong_count_) :
             IF NoOtherUnits(strong)
             THEN RGoto(t, "delete") /\ UNCHANGED rtl
             ELSE KReturn(t)
    /\ UNCHANGED << tcVars, thrVars, object_mutex_, hd, shared, rlast >>

\* delete this, 324 and 348.
KDeleteThis(t) ==
    /\ rpc[t] = "delete"
    /\ cb[rtl[t].c].cb_deletes < MaxDeletes
    /\ cb' = delete_this(Touch(cb, rtl[t].c), rtl[t].c)
    /\ KReturn(t)
    /\ UNCHANGED << tcVars, thrVars, object_mutex_, hd, shared, rlast >>

\* VSharedPtr(const VSharedPtr& o), 440-446.  The source is a handle of the
\* thread itself: the loads of its fields are local, and the fetch_add of
\* add_strong or add_weak is the one access to shared memory.  A null copy
\* is dropped at once.
KCopy(t, d, s) ==
    /\ RIdle(t)
    /\ ~ hd[d].live /\ Owner(d) = t
    /\ hd[s].live /\ Owner(s) = t
    /\ IF hd[s].ctrl_ = 0
       THEN UNCHANGED << cb, hd >>
       ELSE /\ cb' = AddUnit(cb, hd[s])
            /\ hd' = [hd EXCEPT ![d] = Handle(hd[s].ctrl_, hd[s].is_weak_)]
    /\ UNCHANGED << tcVars, thrVars, object_mutex_, shared, rpc, rtl, rlast >>

\* make_weak(strong_ref), 553-562, of a handle of the thread itself: the
\* fetch_add of add_weak is the one access to shared memory.
KMakeWeak(t, d, s) ==
    /\ RIdle(t)
    /\ ~ hd[d].live /\ Owner(d) = t
    /\ hd[s].live /\ Owner(s) = t
    /\ IF hd[s].ctrl_ = 0 \/ hd[s].is_weak_
       THEN UNCHANGED << cb, hd >>
       ELSE /\ cb' = add_weak(cb, hd[s].ctrl_)
            /\ hd' = [hd EXCEPT ![d] = Handle(hd[s].ctrl_, TRUE)]
    /\ UNCHANGED << tcVars, thrVars, object_mutex_, shared, rpc, rtl, rlast >>

\* lock() of a weak handle of the thread itself, 566-569, up to the load
\* that starts try_add_strong, 287: size_t count = gc_strong_count_.load()
KLock(t, d, s) ==
    /\ RIdle(t)
    /\ ~ hd[d].live /\ Owner(d) = t
    /\ hd[s].live /\ Owner(s) = t
    /\ hd[s].is_weak_ /\ hd[s].ctrl_ # 0
    /\ LET c == hd[s].ctrl_ IN
       /\ cb' = Touch(cb, c)
       /\ \E count \in LoadCount(c, cb[c].gc_strong_count_) :
             rtl' = [rtl EXCEPT ![t] =
                       [ NoRLocals EXCEPT !.op = "lock", !.d = d, !.h = s,
                                          !.c = c, !.n = count ]]
    /\ RGoto(t, "tas_cas")
    /\ UNCHANGED << tcVars, thrVars, object_mutex_, hd, shared, rlast >>

\* try_add_strong, 288-294: one turn of the loop; lock() returns when the
\* loop ends, 569-570, and a null result is dropped at once.
KTasCas(t) ==
    /\ rpc[t] = "tas_cas"
    /\ LET c == rtl[t].c
           d == rtl[t].d
       IN  IF CanAddStrong(rtl[t].n)
           THEN \E cur \in LoadCount(c, cb[c].gc_strong_count_) :
                   IF cur = rtl[t].n
                   THEN /\ cb' = Store(cb, c, [cb EXCEPT
                                    ![c].gc_strong_count_ =
                                        (cur + 1) % SizeMod])
                        /\ hd' = [hd EXCEPT ![d] = Handle(c, FALSE)]
                        /\ RDone(t)
                   ELSE /\ cb' = Touch(cb, c)
                        /\ rtl' = [rtl EXCEPT ![t].n = cur]
                        /\ UNCHANGED << hd, rpc >>
           ELSE /\ RDone(t)
                /\ UNCHANGED << cb, hd >>
    /\ UNCHANGED << tcVars, thrVars, object_mutex_, shared, rlast >>

\* expired(), 592-593, of a handle of the thread itself: the load of the
\* strong count by is_alive(), 354.
KExpired(t, s) ==
    /\ RIdle(t)
    /\ hd[s].live /\ Owner(s) = t
    /\ hd[s].ctrl_ # 0
    /\ LET c == hd[s].ctrl_ IN
       /\ cb' = Touch(cb, c)
       /\ \E n \in LoadCount(c, cb[c].gc_strong_count_) :
             rtl' = [rtl EXCEPT ![t] =
                       [ NoRLocals EXCEPT !.op = "expired", !.h = s,
                                          !.c = c, !.n = n ]]
    /\ RGoto(t, "exp_ret")
    /\ UNCHANGED << tcVars, thrVars, object_mutex_, hd, shared, rlast >>

\* expired() returns !(count > 0).
KExpiredReturn(t) ==
    /\ rpc[t] = "exp_ret"
    /\ RDone(t)
    /\ UNCHANGED << tcVars, thrVars, cb, object_mutex_, hd, shared, rlast >>

\* operator-> and lock_access, 493-496 and 543-546: the loads of the fields
\* of the handle and the tests; a weak or null handle throws.
KArrow(t, s) ==
    /\ RIdle(t)
    /\ CanUse(t, s)
    /\ ~ hd[s].is_weak_ /\ hd[s].ctrl_ # 0
    /\ rtl' = [rtl EXCEPT ![t] = [ NoRLocals EXCEPT !.op = "arrow", !.h = s,
                                                    !.c = hd[s].ctrl_ ]]
    /\ RGoto(t, "ar_ptr")
    /\ UNCHANGED << tcVars, thrVars, cb, object_mutex_, hd, shared, rlast >>

\* 498, 547: the argument c->get_ptr() of the LockedProxy constructor.
KArrowPtr(t) ==
    /\ rpc[t] = "ar_ptr"
    /\ LET c == rtl[t].c IN
       /\ cb' = Touch(cb, c)
       /\ \E p \in LoadPtr(c) : rtl' = [rtl EXCEPT ![t].p = p]
    /\ RGoto(t, "ar_lock")
    /\ UNCHANGED << tcVars, thrVars, object_mutex_, hd, shared, rlast >>

\* LockedProxy(T* ptr, std::shared_mutex& mtx) : ptr_(ptr), lock_(mtx),
\* 136-140; a null ptr_ throws and the lock is released again.
KArrowLock(t) ==
    /\ rpc[t] = "ar_lock"
    /\ LET c == rtl[t].c IN
       /\ cb[c].state = "deleted" \/ CanLockExclusive(c)
       /\ cb' = Touch(cb, c)
       /\ IF rtl[t].p = 0
          THEN RDone(t) /\ UNCHANGED object_mutex_
          ELSE /\ object_mutex_' = IF cb[c].state = "deleted"
                                   THEN object_mutex_
                                   ELSE [object_mutex_ EXCEPT
                                           ![c] = LockExclusive(@, t)]
               /\ RGoto(t, "ar_hold")
               /\ UNCHANGED rtl
    /\ UNCHANGED << tcVars, thrVars, hd, shared, rlast >>

\* The LockedProxy goes out of scope.
KArrowRelease(t) ==
    /\ rpc[t] = "ar_hold"
    /\ object_mutex_' = [object_mutex_ EXCEPT
          ![rtl[t].c].excl = IF @ = t THEN 0 ELSE @]
    /\ cb' = Touch(cb, rtl[t].c)
    /\ RDone(t)
    /\ UNCHANGED << tcVars, thrVars, hd, shared, rlast >>

\* operator* and operator[], 505-508 and 520-523.
KStar(t, s) ==
    /\ RIdle(t)
    /\ CanUse(t, s)
    /\ ~ hd[s].is_weak_ /\ hd[s].ctrl_ # 0
    /\ rtl' = [rtl EXCEPT ![t] = [ NoRLocals EXCEPT !.op = "star", !.h = s,
                                                    !.c = hd[s].ctrl_ ]]
    /\ RGoto(t, "st_lock")
    /\ UNCHANGED << tcVars, thrVars, cb, object_mutex_, hd, shared, rlast >>

\* 510, 525: std::shared_lock lock(c->get_mutex())
KStarLock(t) ==
    /\ rpc[t] = "st_lock"
    /\ LET c == rtl[t].c IN
       /\ cb[c].state = "deleted" \/ CanLockShared(c)
       /\ object_mutex_' = IF cb[c].state = "deleted"
                           THEN object_mutex_
                           ELSE [object_mutex_ EXCEPT
                                   ![c].shared = @ \cup { t }]
       /\ cb' = Touch(cb, c)
    /\ RGoto(t, "st_read")
    /\ UNCHANGED << tcVars, thrVars, hd, shared, rtl, rlast >>

\* 511, 526: *c->get_ptr(), under the shared lock.
KStarRead(t) ==
    /\ rpc[t] = "st_read"
    /\ LET c == rtl[t].c IN
       /\ cb' = Touch(cb, c)
       /\ \E p \in LoadPtr(c) : rtl' = [rtl EXCEPT ![t].p = p]
    /\ RGoto(t, "st_access")
    /\ UNCHANGED << tcVars, thrVars, object_mutex_, hd, shared, rlast >>

\* The shared lock goes out of scope as operator* returns.
KStarUnlock(t) ==
    /\ rpc[t] = "st_access"
    /\ object_mutex_' = [object_mutex_ EXCEPT ![rtl[t].c].shared = @ \ { t }]
    /\ cb' = Touch(cb, rtl[t].c)
    /\ RDone(t)
    /\ UNCHANGED << tcVars, thrVars, hd, shared, rlast >>

\* The steps of release_strong, release_weak and destroy_object.
KReleaseStep(t) ==
    \/ KStrongSub(t)
    \/ KDestroyLoad(t)
    \/ KDestroyCas(t)
    \/ KDestroyLock(t)
    \/ KDestroyXchg(t)
    \/ KDestroyDelete(t)
    \/ KDestroyUnlock(t)
    \/ KStrongLoadWeak(t)
    \/ KWeakSub(t)
    \/ KWeakLoadStrong(t)
    \/ KDeleteThis(t)

\* Threads that make, promote, query and destroy handles of their own.
RCCNext ==
    \E t \in RThreads :
       \/ \E h \in RHandles : KDtor(t, h)
       \/ KReleaseStep(t)
       \/ \E d \in RHandles, s \in RHandles : KCopy(t, d, s)
       \/ \E d \in RHandles, s \in RHandles : KMakeWeak(t, d, s)
       \/ \E d \in RHandles, s \in RHandles : KLock(t, d, s)
       \/ KTasCas(t)
       \/ \E s \in RHandles : KExpired(t, s)
       \/ KExpiredReturn(t)

\* Threads that dereference and reset the handles they can use, and destroy
\* handles of their own.
RCSNext ==
    \E t \in RThreads :
       \/ \E h \in RHandles : KDtor(t, h)
       \/ \E h \in RHandles : KReset(t, h)
       \/ KResetStore(t)
       \/ KReleaseStep(t)
       \/ \E s \in RHandles : KArrow(t, s)
       \/ KArrowPtr(t)
       \/ KArrowLock(t)
       \/ KArrowRelease(t)
       \/ \E s \in RHandles : KStar(t, s)
       \/ KStarLock(t)
       \/ KStarRead(t)
       \/ KStarUnlock(t)

\* The state after the main thread has made an object with VMakeShared and
\* has given every thread a handle to it: thread 1 a strong one, every other
\* thread a copy of it or a weak handle made from it by make_weak.
Handed(k) ==
    [ h \in RHandles |->
        IF h = 1 THEN Handle(1, FALSE)
        ELSE IF h \in 2 .. NumRCThreads THEN Handle(1, k[h])
        ELSE NoHandle ]

RCStart(g) ==
    /\ \E k \in [ 2 .. NumRCThreads -> BOOLEAN ] :
          /\ hd = Handed(k)
          /\ cb = [ c \in CBs |->
                      IF c = 1
                      THEN [ NoCB EXCEPT
                               !.state = "alive", !.ptr_ = 1,
                               !.gc_strong_count_ =
                                  1 + Cardinality({ h \in 2 .. NumRCThreads :
                                                      ~ k[h] }),
                               !.gc_weak_count_ =
                                  Cardinality({ h \in 2 .. NumRCThreads :
                                                  k[h] }) ]
                      ELSE NoCB ]
    /\ object_mutex_ = [c \in CBs |-> FreeMutex]
    /\ shared = g
    /\ rpc = [t \in RThreads |-> "idle"]
    /\ rtl = [t \in RThreads |-> NoRLocals]
    /\ rlast = NoLast

\* Every handle is used by its owner only.
RCCInit == TCIdle /\ RCStart({ })

SpecRCC == RCCInit /\ [][RCCNext]_vars

\* Threads that copy and destroy strong handles of their own and promote
\* weak handles of their own, which they keep: the calls are add_strong by
\* a holder, release_strong and try_add_strong (and add_weak, by which a
\* holder makes the weak handle it promotes later).
RCTNext ==
    \E t \in RThreads :
       \/ \E d \in RHandles, s \in RHandles : KMakeWeak(t, d, s)
       \/ \E h \in RHandles : ~ hd[h].is_weak_ /\ KDtor(t, h)
       \/ KStrongSub(t)
       \/ KDestroyLoad(t)
       \/ KDestroyCas(t)
       \/ KDestroyLock(t)
       \/ KDestroyXchg(t)
       \/ KDestroyDelete(t)
       \/ KDestroyUnlock(t)
       \/ KStrongLoadWeak(t)
       \/ KDeleteThis(t)
       \/ \E d \in RHandles, s \in RHandles :
             ~ hd[s].is_weak_ /\ KCopy(t, d, s)
       \/ \E d \in RHandles, s \in RHandles : KLock(t, d, s)
       \/ KTasCas(t)

SpecRCT == RCCInit /\ [][RCTNext]_vars

\* Handle 1 is a global that every thread uses.
RCSharedInit == TCIdle /\ RCStart({ 1 })

SpecRCShared == RCSharedInit /\ [][RCSNext]_vars

-----------------------------------------------------------------------------
(***************************************************************************)
(* TC: reachability, stated on the storage layout and not on the lists the *)
(* collector walks: the edges of o are the referents of the live           *)
(* GC_HEAP handles stored in o's payload.                                  *)
(***************************************************************************)
Edges(o) ==
    { object[h] : h \in { x \in EmbHandles(o) :
                            halive[x] /\ type[x] = "GC_HEAP" } } \ { 0 }

RECURSIVE ReachFrom(_)
ReachFrom(S) ==
    LET T == S \cup UNION { Edges(o) : o \in S }
    IN  IF T = S THEN S ELSE ReachFrom(T)

Registered == SeqToSet(all_objects)

Rooted == { o \in Registered : root_ref_cnt[o] > 0 }

NoDuplicates(s) == \A i, j \in 1 .. Len(s) : s[i] = s[j] => i = j

\* C1 (TC-roots): a gc_collect() that runs with no concurrent mutator leaves
\* in the registry exactly the objects reachable from the objects with
\* root_ref_cnt > 0 along the non-null referents of embedded handles, each
\* once; every other object that was registered is removed and finalised.
C1_TCRoots ==
    [][ last_op' = "collect" =>
          /\ SeqToSet(all_objects') = ReachFrom(Rooted)
          /\ NoDuplicates(all_objects')
          /\ \A o \in Registered \ ReachFrom(Rooted) :
                /\ ostate'[o] = "freed"
                /\ dtor_calls'[o] = dtor_calls[o] + 1 ]_vars

\* A cycle has just kept an object that no ROOT handle refers to (it is
\* reached through an embedded handle) and has swept another one.
C1_Witness ==
    /\ last_op = "collect"
    /\ last_garbage # << >>
    /\ \E o \in Registered : root_ref_cnt[o] = 0
    /\ \E o \in Registered : root_ref_cnt[o] > 0

\* C2 (TC-cycles): every registered object that is not reachable from an
\* object with root_ref_cnt > 0 is, after one gc_collect(), out of the
\* registry, finalised exactly once and freed exactly once.
C2_TCCycles ==
    [][ last_op' = "collect" =>
          \A o \in Registered :
             o \notin ReachFrom(Rooted) =>
                /\ o \notin SeqToSet(all_objects')
                /\ dtor_calls'[o] = 1
                /\ free_calls'[o] = 1 ]_vars

\* A cycle has just swept a two-node cycle a.next = b, b.next = a.
C2_Witness ==
    /\ last_op = "collect"
    /\ \E a, b \in SeqToSet(last_garbage) :
          /\ a # b
          /\ \E h \in EmbHandles(a) : object[h] = b
          /\ \E h \in EmbHandles(b) : object[h] = a
          /\ dtor_calls[a] = 1 /\ dtor_calls[b] = 1
          /\ ostate[a] = "freed" /\ ostate[b] = "freed"


-----------------------------------------------------------------------------
\* C3: a ROOT handle pins its referent.  While gc_collect() runs on other
\* threads, no object that a live ROOT handle refers to, or that is reachable
\* from such an object through embedded handles, is finalised or freed.
C3_RootPins ==
    \A t \in Threads :
       \A o \in ProgObjsOf(t) : ostate[o] \notin { "destroyed", "freed" }

\* C4: the destructor thunk runs at most once on an object and its storage
\* is freed at most once, after exactly one destructor call; no object is
\* in the garbage vector of two cycles, and an object in a garbage vector
\* is no longer in the registry.
C4_FinalisedOnce ==
    /\ \A o \in Objs :
          /\ dtor_calls[o] <= 1
          /\ free_calls[o] <= 1
          /\ cycles_in[o] <= 1
          /\ ostate[o] = "destroyed" => dtor_calls[o] = 1 /\ free_calls[o] = 0
          /\ ostate[o] = "freed" => dtor_calls[o] = 1 /\ free_calls[o] = 1
          /\ ostate[o] \in { "raw", "live" } => dtor_calls[o] = 0
    /\ \A t \in Threads : \A i \in 1 .. Len(stack[t]) :
          \A k \in 1 .. Len(stack[t][i].garbage) :
             /\ stack[t][i].garbage[k] \notin Registered
             /\ \A u \in Threads : \A j \in 1 .. Len(stack[u]) :
                   \A m \in 1 .. Len(stack[u][j].garbage) :
                      stack[u][j].garbage[m] = stack[t][i].garbage[k]
                         => u = t /\ j = i /\ m = k

\* Two threads are inside gc_collect() at once, one of them in a cycle started
\* by a finaliser, and an object has been finalised and freed.
C4_Witness ==
    /\ \E t, u \in Threads :
          /\ t # u
          /\ Len(stack[t]) = 2
          /\ Len(stack[u]) >= 1
          /\ stack[u][1].garbage # << >>
          /\ stack[t][1].garbage # << >>
    /\ \E o \in Objs : ostate[o] = "freed"

-----------------------------------------------------------------------------
StrongHandles(c) ==
    { h \in RHandles : hd[h].live /\ hd[h].ctrl_ = c /\ ~ hd[h].is_weak_ }

WeakHandles(c) ==
    { h \in RHandles : hd[h].live /\ hd[h].ctrl_ = c /\ hd[h].is_weak_ }

\* C5 (RC unit invariant): after any sequence of whole VSharedPtr operations,
\* every control block that is not destroyed has a strong count equal to the
\* number of live non-weak handles that refer to it and a weak count equal to
\* the number of live weak handles that refer to it; the block made by a
\* construction from a raw pointer has strong 1 and weak 0; the source of a
\* move is null and not weak.
C5_UnitInvariant ==
    /\ \A c \in CBs :
          cb[c].state = "alive" =>
             /\ cb[c].gc_strong_count_ = Cardinality(StrongHandles(c))
             /\ cb[c].gc_weak_count_ = Cardinality(WeakHandles(c))
    /\ rlast.op = "new" =>
          /\ hd[rlast.d] = Handle(hd[rlast.d].ctrl_, FALSE)
          /\ cb[hd[rlast.d].ctrl_].state = "alive"
          /\ cb[hd[rlast.d].ctrl_].gc_strong_count_ = 1
          /\ cb[hd[rlast.d].ctrl_].gc_weak_count_ = 0
    /\ rlast.op = "move" /\ rlast.d # rlast.s => hd[rlast.s] = NullHandle

\* A move has just emptied its source while one block has two strong handles
\* and another block has been deleted.
C5_Witness ==
    /\ rlast.op = "move" /\ rlast.d # rlast.s
    /\ hd[rlast.d].ctrl_ # 0
    /\ \E c \in CBs :
          /\ cb[c].state = "alive"
          /\ Cardinality(StrongHandles(c)) = 2
    /\ \E c \in CBs : cb[c].state = "deleted"

-----------------------------------------------------------------------------
\* Handle h is live and refers to block c, and no reset() of h is under way.
Refers(h, c) ==
    /\ hd[h].live /\ hd[h].ctrl_ = c
    /\ \A t \in RThreads : ~ (rtl[t].op = "reset" /\ rtl[t].h = h)

Quiescent == \A t \in RThreads : rpc[t] = "idle"

\* The thread is inside release_strong, release_weak or destroy_object of
\* block c, past the fetch_sub.
Releasing(t, c) ==
    /\ rtl[t].c = c
    /\ rpc[t] \in { "do_load", "do_cas", "do_lock", "do_xchg", "do_delete",
                    "do_unlock", "rs_weak", "rw_strong", "delete" }

\* C6 (RC-conservation): a control block is never deleted while a live
\* strong or weak handle refers to it; a deleted block has had both counts
\* at zero; and when no operation is under way, a block that no live handle
\* refers to has been deleted.
C6_Conservation ==
    \A c \in CBs :
       /\ cb[c].state = "deleted" =>
             /\ \A h \in RHandles : ~ Refers(h, c)
             /\ cb[c].zeroed
       /\ cb[c].state = "alive" /\ Quiescent =>
             \E h \in RHandles : Refers(h, c)

\* C7: when the last strong and the last weak handle of a block are released
\* by two threads, the block is deleted exactly once, and no thread is still
\* inside release_strong, release_weak or destroy_object of a block that has
\* been deleted, or accesses a field of it.
C7_DeleteOnce ==
    \A c \in CBs :
       /\ cb[c].cb_deletes <= 1
       /\ ~ cb[c].uaf
       /\ \A t \in RThreads :
             Releasing(t, c) /\ rpc[t] # "delete" => cb[c].state = "alive"

\* C8 (RC-destroy-once): the managed object of a block is deleted at most
\* once; the thread that swaps ptr_ to null and deletes the object is the
\* one whose compare_exchange set object_destroyed_, and it holds the mutex
\* of the block in exclusive mode.
C8_DestroyOnce ==
    /\ \A c \in CBs : cb[c].obj_deletes <= 1
    /\ \A t \in RThreads :
          rpc[t] \in { "do_xchg", "do_delete" } =>
             /\ object_mutex_[rtl[t].c].excl = t
             /\ object_mutex_[rtl[t].c].shared = { }
             /\ cb[rtl[t].c].winner = t
             /\ cb[rtl[t].c].object_destroyed_

\* C9 (RC-weak-safety): lock() of a weak handle returns a non-null handle
\* exactly if the strong count has not reached zero when try_add_strong
\* decides, so never after it has reached zero; and expired() is true once
\* the strong count has reached zero.
C9_WeakSafety ==
    [][ \A t \in RThreads :
          /\ rpc[t] = "tas_cas" /\ rpc'[t] = "idle" =>
                /\ hd'[rtl[t].d].live <=> ~ cb[rtl[t].c].zeroed
                /\ hd'[rtl[t].d].live =>
                      hd'[rtl[t].d] = Handle(rtl[t].c, FALSE)
          /\ rpc[t] = "idle" /\ rpc'[t] = "exp_ret" =>
                (cb[rtl'[t].c].zeroed => ~ (rtl'[t].n > 0)) ]_vars

\* C10 (RC-deref-serialises): while a thread holds the locked view of
\* operator-> or lock_access, or makes the access of operator* or
\* operator[], the pointer it uses is not null and the managed object has
\* not been deleted and is not being deleted.  (Stated for a control block
\* that is still allocated.)
C10_DerefSerialises ==
    \A t \in RThreads :
       rpc[t] \in { "ar_hold", "st_access" }
          /\ cb[rtl[t].c].state = "alive" =>
          /\ rtl[t].p # 0
          /\ cb[rtl[t].c].obj_deletes = 0
          /\ \A u \in RThreads :
                ~ (rpc[u] = "do_delete" /\ rtl[u].c = rtl[t].c)


-----------------------------------------------------------------------------
\* The threads that hold a LockedProxy on block c: the constructor of the
\* proxy has returned and the proxy is not destroyed yet.
ProxyHolders(c) == { t \in RThreads : rpc[t] = "ar_hold" /\ rtl[t].c = c }

\* C11: at any time at most one thread holds a LockedProxy, the result of
\* operator->, for a given control block.
C11_ProxyExclusive ==
    \A c \in CBs : Cardinality(ProxyHolders(c)) <= 1

\* C12: a thread that holds the scoped locked view of a control block holds
\* the mutex of the block in shared mode, and no thread holds it in exclusive
\* mode while the view exists.
C12_SharedView ==
    \A c \in CBs :
       cb[c].state = "alive" =>
          /\ ProxyHolders(c) \subseteq object_mutex_[c].shared
          /\ ProxyHolders(c) # { } => object_mutex_[c].excl = 0

\* The member prev of the Node of block c is a weak handle to block e.
PrevWeakTo(c, e) ==
    hd[prev(c)].live /\ hd[prev(c)].is_weak_ /\ hd[prev(c)].ctrl_ = e

\* The local variable d is the only strong handle to block c.
LastStrong(d, c) ==
    /\ hd[d].live /\ ~ hd[d].is_weak_ /\ hd[d].ctrl_ = c
    /\ cb[c].state = "alive" /\ cb[c].gc_strong_count_ = 1

\* C13: two Nodes whose prev members are weak handles to each other, each
\* with one strong handle.  When the first strong handle goes out of scope
\* its Node is destroyed in that step and its control block stays, kept by
\* the weak unit of the other Node's prev; when the second one goes out of
\* scope its Node is destroyed, and both control blocks are deleted, each
\* exactly once and with no access to freed storage.
C13_StrongWeakCycle ==
    [][ \A d \in NStack : \A c \in CBs : \A e \in CBs \ { c } :
          ( LastStrong(d, c) /\ PrevWeakTo(c, e) /\ ~ hd'[d].live ) =>
             /\ ( /\ PrevWeakTo(e, c)
                  /\ cb[e].gc_strong_count_ = 1
                  /\ cb[c].gc_weak_count_ = 1 /\ cb[e].gc_weak_count_ = 1 ) =>
                   /\ cb'[c].state = "alive" /\ cb'[c].cb_deletes = 0
                   /\ cb'[c].gc_strong_count_ = 0 /\ cb'[c].gc_weak_count_ = 1
                   /\ cb'[c].obj_deletes = 1 /\ cb'[c].ptr_ = 0
                   /\ ~ hd'[prev(c)].live
                   /\ cb'[e].state = "alive" /\ cb'[e].obj_deletes = 0
                   /\ cb'[e].gc_strong_count_ = 1 /\ cb'[e].gc_weak_count_ = 0
             /\ ( /\ cb[e].gc_strong_count_ = 0 /\ cb[e].obj_deletes = 1
                  /\ cb[e].gc_weak_count_ = 1 /\ cb[c].gc_weak_count_ = 0 ) =>
                   /\ cb'[c].state = "deleted" /\ cb'[e].state = "deleted"
                   /\ cb'[c].cb_deletes = 1 /\ cb'[e].cb_deletes = 1
                   /\ cb'[c].obj_deletes = 1 /\ cb'[e].obj_deletes = 1
                   /\ ~ cb'[c].uaf /\ ~ cb'[e].uaf
                   /\ ~ hd'[prev(c)].live /\ ~ hd'[prev(e)].live
      ]_vars

\* The last strong handle of a Node whose prev was weak to the other block
\* has gone out of scope, and both Nodes and both blocks are destroyed, once.
C13_Witness ==
    \E c \in CBs : \E e \in CBs \ { c } :
       /\ rlast = Last("dtor", e, c, TRUE)
       /\ cb[c].state = "deleted" /\ cb[e].state = "deleted"
       /\ cb[c].cb_deletes = 1 /\ cb[e].cb_deletes = 1
       /\ cb[c].obj_deletes = 1 /\ cb[e].obj_deletes = 1
       /\ \A h \in RHandles : ~ hd[h].live

\* The gc_collect() activations of thread t in which a New<T> of the
\* destructor has returned: every activation with a New<T> but the innermost
\* one while that New<T> is still running.
NewReturned(t) ==
    { i \in 1 .. Len(stack[t]) :
        /\ stack[t][i].fo # 0
        /\ i = Len(stack[t]) => pc[t] \notin { "fin_load", "fin_reg" }
        /\ i < Len(stack[t]) => stack[t][i + 1].ret # "fin_reg" }

\* In a destructor called by gc_collect(), and in a New<T> the destructor
\* executes, gc_mutex is free; the object of a New<T> that has registered
\* is in the registry, with its root reference, as long as the destructor
\* holds its handle.
FinaliserAllocates ==
    \A t \in Threads :
       /\ pc[t] \in { "gc_fin", "fin_load", "fin_reg", "fin_ctor" }
             => ~ gc_mutex
       /\ \A i \in NewReturned(t) :
             LET f == stack[t][i] IN
             ( halive[f.fd] /\ object[f.fd] = f.fo ) =>
                /\ f.fo \in SeqToSet(all_objects)
                /\ ostate[f.fo] = "live"
                /\ root_ref_cnt[f.fo] > 0

-----------------------------------------------------------------------------
\* C15: when the payload constructor of New<T> or New<T[]> throws, the
\* registry holds after the call exactly the objects it held before it, the
\* creating handle is null and the failed object has no root reference.
C15_CtorThrowRollsBack ==
    [][ last_op' = "throw" =>
          LET n == FreshObj IN
          /\ all_objects' = all_objects
          /\ root_ref_cnt'[n] = 0
          /\ \A h \in RootHandles : object'[h] # n ]_vars

-----------------------------------------------------------------------------
\* C16: a dereference (operator->, operator*, operator[], lock_access) of a
\* weak or null handle fails with the memory-safety error and has no effect:
\* it takes no object_mutex_ and leaves none held, and the handles and the
\* control blocks with their counters are as before.
C16_DerefWeakOrNullFails ==
    [][ \A s \in RHandles :
          ( /\ rlast'.op \in DerefOps
            /\ rlast'.s = s
            /\ hd[s].is_weak_ \/ hd[s].ctrl_ = 0 )
          => /\ rlast'.res = FALSE
             /\ rlast'.d = 0
             /\ UNCHANGED << cb, hd, object_mutex_ >> ]_vars

\* A weak handle whose block is still allocated has just been dereferenced.
C16_Witness ==
    /\ rlast.op \in DerefOps
    /\ rlast.res = FALSE
    /\ hd[rlast.s].live /\ hd[rlast.s].is_weak_
    /\ hd[rlast.s].ctrl_ # 0
    /\ cb[hd[rlast.s].ctrl_].state = "alive"

-----------------------------------------------------------------------------
\* C17: make_weak(s) of a strong non-null handle s returns a weak handle to
\* the control block of s and adds one to the weak counter of that block,
\* the strong counter staying as it is; of a null or weak s it returns a null
\* handle and changes no counter.
C17_MakeWeak ==
    [][ \A d \in RHandles : \A s \in RHandles :
          (rlast'.op = "make_weak" /\ rlast'.d = d /\ rlast'.s = s) =>
             IF hd[s].ctrl_ # 0 /\ ~ hd[s].is_weak_
             THEN LET c == hd[s].ctrl_ IN
                  /\ hd'[d] = Handle(c, TRUE)
                  /\ cb'[c].gc_weak_count_ = cb[c].gc_weak_count_ + 1
                  /\ cb'[c].gc_strong_count_ = cb[c].gc_strong_count_
                  /\ \A b \in CBs \ { c } : cb'[b] = cb[b]
             ELSE /\ hd'[d] = NullHandle
                  /\ cb' = cb ]_vars

\* make_weak has just made a second weak handle to a block.
C17_Witness ==
    /\ rlast.op = "make_weak" /\ rlast.res
    /\ hd[rlast.d] = Handle(hd[rlast.s].ctrl_, TRUE)
    /\ cb[hd[rlast.s].ctrl_].gc_weak_count_ = 2
    /\ cb[hd[rlast.s].ctrl_].gc_strong_count_ = 1

-----------------------------------------------------------------------------
\* C18: release_strong on a block whose strong counter is 0, and release_weak
\* on a block whose weak counter is 0, is a no-op: the counter is 0
\* afterwards, and the call destroys neither the managed object nor the
\* control block.
C18_UnderflowGuard ==
    [][ \A c \in CBs :
          /\ ( /\ rlast'.op = "release_strong" /\ rlast'.s = c
               /\ cb[c].gc_strong_count_ = 0 )
             => /\ cb'[c].gc_strong_count_ = 0
                /\ cb'[c].obj_deletes = cb[c].obj_deletes
                /\ cb'[c].cb_deletes = cb[c].cb_deletes
          /\ ( /\ rlast'.op = "release_weak" /\ rlast'.s = c
               /\ cb[c].gc_weak_count_ = 0 )
             => /\ cb'[c].gc_weak_count_ = 0
                /\ cb'[c].obj_deletes = cb[c].obj_deletes
                /\ cb'[c].cb_deletes = cb[c].cb_deletes ]_vars

-----------------------------------------------------------------------------
CounterOps ==
    { "add_strong", "add_weak", "try_add_strong", "release_strong",
      "release_weak" }

\* A sentinel of the block is overwritten or its destroyed flag is set.
Damaged(b) ==
    \/ b.magic_header_ # "alive"
    \/ b.magic_footer_ # "alive"
    \/ b.control_block_destroyed_

\* C19: each of add_strong, add_weak, try_add_strong, release_strong and
\* release_weak verifies the sentinels and the destroyed flag first: on a
\* block with an overwritten sentinel or a set flag it reports the safety
\* error and changes no counter.
C19_CounterOpsVerify ==
    [][ \A c \in CBs :
          ( /\ rlast'.op \in CounterOps /\ rlast'.s = c
            /\ cb[c].state = "alive" /\ Damaged(cb[c]) )
          => /\ rlast'.res = FALSE
             /\ cb'[c].gc_strong_count_ = cb[c].gc_strong_count_
             /\ cb'[c].gc_weak_count_ = cb[c].gc_weak_count_ ]_vars

-----------------------------------------------------------------------------
\* The step is an allocation: New<T> has registered and constructed object n.
NewStep(n) == ostate[n] = "none" /\ ostate'[n] = "live"

\* A cycle has run in the step before n was registered: the live objects are
\* the registry without n, and the countdown is recalibrated from them.
CollectedFirst(n) ==
    /\ gc_counter' = Recalibrate(Len(all_objects') - 1)
    /\ \A o \in SeqToSet(all_objects) :
          o \in SeqToSet(all_objects') \/ ostate'[o] = "freed"

\* C20: every allocation decrements gc_counter by one, and when the decrement
\* makes the countdown non-positive (0 or less) a cycle runs before the new
\* object is registered.
C20_AllocationPressure ==
    [][ \A n \in Objs :
          (NewStep(n) /\ all_objects # << >>) =>
             IF gc_counter - 1 <= 0
             THEN CollectedFirst(n)
             ELSE gc_counter' = gc_counter - 1 ]_vars

-----------------------------------------------------------------------------
\* Thread t leaves the locked block of gc_collect() in this step.
LockedBlockDone(t) == pc[t] = "gc_lock" /\ pc'[t] # "gc_lock"

-----------------------------------------------------------------------------
\* C22 (idempotence): a gc_collect() that follows a gc_collect() with no
\* handle operation and no allocation between them changes nothing: the
\* registry with its order, every root_ref_cnt, the finalised and the freed
\* objects and gc_counter are as the first call left them.
C22_CollectIdempotent ==
    [][ (last_op = "collect" /\ last_op' = "collect") =>
          /\ all_objects' = all_objects
          /\ root_ref_cnt' = root_ref_cnt
          /\ dtor_calls' = dtor_calls
          /\ free_calls' = free_calls
          /\ ostate' = ostate
          /\ gc_counter' = gc_counter ]_vars

\* A second cycle has found nothing to sweep in a registry that the first
\* one had swept and left with survivors.
C22_Witness ==
    /\ last_op = "collect"
    /\ last_garbage = << >>
    /\ all_objects # << >>
    /\ \E o \in Objs : ostate[o] = "freed" /\ dtor_calls[o] = 1
    /\ \A o \in SeqToSet(all_objects) : mark[o]
    /\ gc_counter = 1024

-----------------------------------------------------------------------------
\* The objects the next cycle keeps.
Kept == SeqToSet(Partition(Marked).live)

\* C23 (round trip): assigning null to a handle and then assigning its
\* referent back from another handle that refers to it, with no cycle
\* between the two, restores every root_ref_cnt and every referent, so the
\* next cycle keeps the objects it would have kept.
C23_RoundTrip ==
    [][ last_op' = "round_trip" =>
          /\ root_ref_cnt' = root_ref_cnt
          /\ object' = object
          /\ Kept' = Kept ]_vars

\* The round trip has just been made on a ROOT handle whose referent has a
\* second root reference and an embedded handle that refers to an object.
C23_Witness ==
    /\ last_op = "round_trip"
    /\ \E o \in Registered :
          /\ root_ref_cnt[o] = 2
          /\ \E h \in EmbHandles(o) : halive[h] /\ object[h] # 0

-----------------------------------------------------------------------------
\* The live ROOT handles whose object slot holds o.
RootRefs(o) ==
    { h \in Handles : halive[h] /\ type[h] = "ROOT" /\ object[h] = o }

\* A step that neither constructs, destroys nor assigns a ROOT handle.
HeapOnlyStep ==
    \A h \in Handles :
       (halive[h] \/ halive'[h]) /\ (type[h] = "ROOT" \/ type'[h] = "ROOT")
          => halive'[h] = halive[h] /\ object'[h] = object[h]

Quiet == \A t \in Threads : pc[t] = "idle" /\ stack[t] = << >>

Occurrences(o) ==
    Cardinality({ i \in 1 .. Len(all_objects) : all_objects[i] = o })

RECURSIVE Links(_)
Links(j) == IF j = 0 THEN << >> ELSE << j >> \o Links(next[j])

\* C26: the handles linked in the embedded-handle list of a registered
\* object are exactly the alive GC_HEAP handles stored inside the object,
\* each linked once; no destroyed handle is linked, a failed construction
\* that destroyed the handles it had built included.
C26_ListIsAliveEmbedded ==
    \A o \in Registered :
       LET L == Links(first[o]) IN
       /\ SeqToSet(L) = { h \in EmbHandles(o) :
                             halive[h] /\ type[h] = "GC_HEAP" }
       /\ Len(L) = Cardinality(SeqToSet(L))

\* The step is r(std::move(s)) for a variable r of the thread.
MoveConstructed(r, s) ==
    /\ last_op' = "move_ctor"
    /\ ~ halive[r] /\ halive'[r] /\ Usable(s)
    /\ Slots' = move_ctor(Slots, type'[r], r, s)

\* The step is d = std::move(s).
MoveAssigned(d, s) ==
    /\ last_op' = "move_assign"
    /\ Usable(d) /\ Usable(s)
    /\ Slots' = move_assign(Slots, d, s)

\* C27: a move construction or move assignment between a ROOT handle and a
\* GC_HEAP handle, in either direction, leaves the destination referring to
\* what the source referred to and the source's object slot null.
C27_MixedMoveNullifies ==
    [][ \A d \in Handles, s \in Handles :
           /\ MoveConstructed(d, s) /\ type'[d] # type[s]
                 => object'[d] = object[s] /\ object'[s] = 0
           /\ MoveAssigned(d, s) /\ type[d] # type[s]
                 => object'[d] = object[s] /\ object'[s] = 0 ]_vars


\* C28: a move construction or move assignment between two ROOT handles
\* leaves the destination referring to what the source referred to, and the
\* root_ref_cnt of every object as it was.
C28_RootMoveTransfers ==
    [][ \A d \in Handles, s \in Handles :
           (MoveConstructed(d, s) \/ MoveAssigned(d, s))
              /\ type'[d] = "ROOT" /\ type[s] = "ROOT"
              => object'[d] = object[s] /\ root_ref_cnt' = root_ref_cnt ]_vars

\* After a move, both variables of the thread are alive, one holds the only
\* root reference of an object, and no member of any object refers to
\* anything: the move was from one variable to the other.
C28_Witness ==
    /\ last_op \in { "move_ctor", "move_assign" }
    /\ \A r \in RootHandles : halive[r]
    /\ \E r \in RootHandles :
          object[r] # 0 /\ root_ref_cnt[object[r]] = 1
    /\ \A h \in Handles : type[h] = "GC_HEAP" => object[h] = 0

\* C29: no step writes the first field of an object or the next field of a
\* handle while another thread holds gc_mutex for phases 1 to 3 of a
\* collection: the gc_base_ptr constructors edit the embedded-handle list
\* with gc_mutex held, whether the initial referent is null or not.
C29_ListEditsLocked ==
    [][ first' # first \/ next' # next => ~ gc_mutex ]_vars

\* C30: while a thread holds gc_mutex for phases 1 to 3 of a collection, no
\* step takes the root_ref_cnt of a registered object from 0 to a positive
\* value; an increment of a count that is positive, and every decrement (a
\* null assignment, the destructor of a ROOT handle), can be taken while
\* gc_mutex is held.
C30_ZeroToOneLocked ==
    /\ [][ \A o \in Registered :
              root_ref_cnt[o] = 0 /\ root_ref_cnt'[o] > 0 => ~ gc_mutex ]_vars
    /\ [] (gc_mutex =>
             \A t \in Threads :
                /\ pc[t] = "inc" /\ root_ref_cnt[tl[t].o] > 0
                      => ENABLED CInc(t)
                /\ \A r \in RootsOf(t) :
                      Idle(t) /\ halive[r]
                         => ENABLED CDtor(t, r) /\ ENABLED CNullAssign(t, r))

\* A collection holds gc_mutex while a thread that read a zero count waits
\* for it in inc_root, and another handle of the thread could be dropped.
C30_Witness ==
    /\ gc_mutex
    /\ \E t \in Threads :
          /\ pc[t] = "inc_lock"
          /\ tl[t].o \in Registered /\ root_ref_cnt[tl[t].o] = 0

\* The call of try_add_strong that thread t is in returns in this step.
TasReturns(t) == rpc[t] = "tas_cas" /\ rpc'[t] # "tas_cas"

\* C31: try_add_strong returns true, having added exactly one, exactly if
\* the strong count is greater than 0 when it returns, and otherwise
\* returns false and leaves the count 0; and whatever the threads do with
\* try_add_strong, add_strong on handles they hold and release_strong, a
\* strong count that has reached 0 is 0 from then on.
C31_TryAddStrong ==
    /\ [][ \A t \in RThreads : TasReturns(t) =>
             LET c == rtl[t].c
                 n == cb[c].gc_strong_count_
             IN  IF hd'[rtl[t].d].live
                 THEN n > 0 /\ cb'[c].gc_strong_count_ = n + 1
                 ELSE n = 0 /\ cb'[c].gc_strong_count_ = 0 ]_vars
    /\ [] (\A c \in CBs : cb[c].zeroed => cb[c].gc_strong_count_ = 0)

\* The strong count has reached 0, the block is kept by a weak handle, and
\* a lock() of that handle has returned null.
C31_Witness ==
    \E c \in CBs :
       /\ cb[c].state = "alive" /\ cb[c].zeroed
       /\ cb[c].gc_weak_count_ > 0
       /\ \E t \in RThreads : rpc[t] = "tas_cas" /\ rtl[t].c = c
-----------------------------------------------------------------------------
\* C32: the thread's `current` is a properly nested frame.  While the payload
\* constructor of a New runs, current is the header of the object under
\* construction; every New in progress saved the header of the New that
\* called it (null for the outermost), and current is that value again when
\* it has returned or thrown, so that with no New in progress current is
\* null; a Ptr member constructed after an inner New has ended is therefore
\* classified GC_HEAP against the outer object and is in its list, and result
\* handles on the stack are ROOT.
RECURSIVE InList(_, _)
InList(h, l) == l # 0 /\ (l = h \/ InList(h, next[l]))

C32_CurrentIsFrame ==
    /\ current = (IF frames = << >> THEN 0 ELSE TopFrame.new_obj)
    /\ \A i \in 1 .. Len(frames) :
         frames[i].parent = (IF i = 1 THEN 0 ELSE frames[i - 1].new_obj)
    /\ \A o \in Objs : \A h \in EmbHandles(o) :
         halive[h] /\ ostate[o] = "live"
            => type[h] = "GC_HEAP" /\ InList(h, first[o])
    /\ \A r \in RootHandles : halive[r] => type[r] = "ROOT"

\* The outer constructor has constructed its Ptr member after a New it called
\* has ended, and that New's object is still held by a handle on the stack.
C32_Witness ==
    /\ Len(frames) = 1
    /\ frames[1].inner
    /\ frames[1].built
    /\ \A h \in EmbHandles(frames[1].new_obj) : halive[h] /\ type[h] = "GC_HEAP"
    /\ \E r \in RootHandles :
         halive[r] /\ object[r] # 0 /\ object[r] # frames[1].new_obj

-----------------------------------------------------------------------------
\* C33: when the constructor of element k of New<T[]>(n) throws, the k
\* elements already constructed are destroyed in reverse order of their
\* construction (k - 1 first, 0 last), each exactly once, before the failure
\* is propagated.
C33_ReverseOrder ==
    arr.pc = "thrown" =>
       /\ arr.log = [i \in 1 .. arr.constructed_end |->
                       arr.constructed_end - i]
       /\ \A i \in 1 .. arr.size :
            arr.calls[i] = (IF i <= arr.constructed_end THEN 1 ELSE 0)

\* What the catch block does: each constructed element is destroyed exactly
\* once before the failure is propagated, element 0 first.
C33_ForwardOrder ==
    arr.pc = "thrown" =>
       /\ arr.log = [i \in 1 .. arr.constructed_end |-> i - 1]
       /\ \A i \in 1 .. arr.size :
            arr.calls[i] = (IF i <= arr.constructed_end THEN 1 ELSE 0)

-----------------------------------------------------------------------------
\* C34: an object whose payload construction failed is never handed to its
\* destructor thunk by a later collection: no step runs the thunk of a header
\* in whose payload no T was constructed (or whose elements the failure path
\* has already destroyed).
C34_FailedNeverFinalised ==
    [][ \A o \in Objs :
          ostate[o] = "raw" => dtor_calls'[o] = dtor_calls[o] ]_vars

-----------------------------------------------------------------------------
\* C35: after any sequence of copies, move constructions, move assignments,
\* null assignments and resets, a handle whose get() is not null tracks an
\* object, and get() points into the payload of that object; so a moved-from
\* Ptr keeps no display pointer to an object it no longer tracks.
C35_DisplayTracksObject ==
    \A h \in Handles :
       Usable(h) /\ ptr[h] # 0 => object[h] # 0 /\ ptr[h] = object[h]


-----------------------------------------------------------------------------
\* C36: a Node whose member prev is a weak handle to the Node's own control
\* block (x->prev.weak(x)).  The step that releases the last strong handle
\* of such a Node, from a block that is intact, destroys the Node exactly
\* once and the control block exactly once, and accesses no field of the
\* block after the release of prev, inside ~Node(), has deleted it.
SelfWeakLastRelease(c) ==
    /\ cb[c].state = "alive" /\ ~ cb[c].uaf
    /\ cb[c].obj_deletes = 0 /\ cb[c].cb_deletes = 0
    /\ cb[c].gc_strong_count_ = 1 /\ cb[c].gc_weak_count_ = 1
    /\ hd[prev(c)].live /\ hd[prev(c)].ctrl_ = c /\ hd[prev(c)].is_weak_
    /\ ~ cb[c].zeroed /\ cb'[c].zeroed

C36_SelfWeakReleasedOnce ==
    [][ \A c \in CBs :
          SelfWeakLastRelease(c)
             => /\ cb'[c].obj_deletes = 1
                /\ cb'[c].cb_deletes = 1
                /\ ~ cb'[c].uaf ]_vars

-----------------------------------------------------------------------------
\* C37 (variant of src/gc/cpp): after h.Ref(other), h has released exactly
\* the unit it held and holds one weak unit on the block of other, or is
\* null; when other is null or weak, h refers to no block, so that a later
\* destructor or reset of h releases nothing a second time: every allocated
\* block has as many strong and weak units as live handles refer to it, and
\* no deleted block is released again.
HoldersOf(c, w) ==
    Cardinality({ h \in GHandles :
                    hd[h].live /\ hd[h].ctrl_ = c /\ hd[h].is_weak_ = w })

C37_RefReleasesOnce ==
    /\ rlast.op = "Ref" /\ rlast.d # rlast.s =>
          IF rlast.res
          THEN hd[rlast.d] = Handle(hd[rlast.s].ctrl_, TRUE)
          ELSE hd[rlast.d].ctrl_ = 0
    /\ \A c \in CBs :
          /\ ~ cb[c].uaf
          /\ cb[c].cb_deletes <= 1
          /\ cb[c].state = "alive" =>
                /\ cb[c].gc_strong_count_ = HoldersOf(c, FALSE)
                /\ cb[c].gc_weak_count_ = HoldersOf(c, TRUE)

\* A handle whose Ref(other) found other null or weak is used later, and the
\* block it had released in Ref is accessed after its deletion or deleted
\* once more.
C37_SecondRelease ==
    \E c \in CBs : cb[c].uaf \/ cb[c].cb_deletes > 1

-----------------------------------------------------------------------------
\* C38 (Runtime): when GC::New returns, the object it returns is registered
\* and has not been destroyed: a collection that runs inside register_obj
\* does not sweep the object being registered.
C38_NewReturnsRegistered ==
    rtpc.pc = "idle" /\ rtpc.op = "New" =>
       LET h == rp[rtpc.p].header IN
       /\ h \in rt.objects
       /\ hdr[h].state = "live"

-----------------------------------------------------------------------------
\* C39 (Runtime): an object stays in the root set as long as a live Ptr
\* refers to it; copying a Ptr and destroying or reassigning the copy does
\* not remove the object from the roots.
C39_RootWhileReferenced ==
    rtpc.pc = "idle" =>
       \A p \in RtPtrs :
          rp[p].live /\ rp[p].header # 0 => rp[p].header \in rt.roots

-----------------------------------------------------------------------------
\* C40 (Runtime): a collection started from register_obj always finishes,
\* also when a destroy callback allocates through GC::New: the thread does
\* not block on the mutex it holds.
C40_CollectionFinishes == rt.gc_running ~> ~ rt.gc_running

=============================================================================
